---------------------------- MODULE Spec2Model ----------------------------
(***************************************************************************)
(* Model of the PCI computation and road-segment aggregation pipeline of   *)
(* the CivicScan web viewer (utils/astmDeductTables.ts,                    *)
(* utils/pciCalculator.ts and convertParentTracksToFeatures in             *)
(* app/map/page.tsx).                                                      *)
(*                                                                         *)
(* Numbers.  The deduct-value code works on IEEE doubles.  They are        *)
(* modelled by exact fixed-point integers: the integer n stands for the    *)
(* real number n / Unit.  Unit is chosen so that every product and every   *)
(* interpolation the code performs on the modelled inputs is exact.  The   *)
(* one non-real double the code can produce, NaN, is a value of its own,   *)
(* with the comparison and arithmetic rules of the language.               *)
(***************************************************************************)
EXTENDS Integers, Sequences, FiniteSets, TLC

VARIABLES
  \* applyMultipleDeductCorrection
  deductValues, workingDeducts, cdvResults, iteration, cdvPc, cdvExit, maxCDV,
  \* getDeductValue
  defectType, severity, density, deductValue, dvPc,
  \* calculatePCI
  pixelPercentages, pciDeductValues, total_cdv, pciResult, pciPc,
  \* getPCIRating, getPixelBasedPCIRating, getPCIColor
  pci, bands, bandPc,
  \* convertParentTracksToFeatures
  features, gpsFrameMappings, videoSegments, frameToSpeedMap, allParentTracks,
  jobFrameToSegment, segmentData, segments, parentIdx, segPc,
  \* handleLoadMap: the features of a load
  fetchedFeatures, targetMode, allFeatures, aggregatedFrameFeatures,
  reaggregatedFeatures, framePc,
  \* applyMultipleDeductCorrection of a list and of the list with one more value
  shorterList, appendedValue, shorterCDV, longerCDV, appendPc,
  \* processedPathSegments
  geojsonFeatures, sortedFeatures, continuousPaths, currentPathCoords, prevTimestamp, pointIdx, pathPc,
  \* handleLoadMap
  targetPrefix, geojson, loading, error, successMessage, loadTarget, geojsonUrls, fetchPromises, mergedFeatures, failedUrls, coreInput, loadPc

cdvVars == <<deductValues, workingDeducts, cdvResults, iteration, cdvPc, cdvExit, maxCDV>>

dvVars == <<defectType, severity, density, deductValue, dvPc>>

pciVars == <<pixelPercentages, pciDeductValues, total_cdv, pciResult, pciPc>>

bandVars == <<pci, bands, bandPc>>

segVars ==
  <<features, gpsFrameMappings, videoSegments, frameToSpeedMap, allParentTracks,
    jobFrameToSegment, segmentData, segments, parentIdx, segPc>>

frameVars ==
  <<fetchedFeatures, targetMode, allFeatures, aggregatedFrameFeatures,
    reaggregatedFeatures, framePc>>

appendVars == <<shorterList, appendedValue, shorterCDV, longerCDV, appendPc>>

pathVars == <<geojsonFeatures, sortedFeatures, continuousPaths, currentPathCoords, prevTimestamp, pointIdx, pathPc>>

loadVars == <<targetPrefix, geojson, loading, error, successMessage, loadTarget, geojsonUrls, fetchPromises, mergedFeatures, failedUrls, coreInput, loadPc>>

vars == <<cdvVars, dvVars, pciVars, bandVars, segVars, frameVars, appendVars, pathVars, loadVars>>

\* what a call of one function leaves alone
notCdv == <<dvVars, pciVars, bandVars, segVars, frameVars, appendVars, pathVars, loadVars>>

notDv == <<cdvVars, pciVars, bandVars, segVars, frameVars, appendVars, pathVars, loadVars>>

notPci == <<cdvVars, dvVars, bandVars, segVars, frameVars, appendVars, pathVars, loadVars>>

notBand == <<cdvVars, dvVars, pciVars, segVars, frameVars, appendVars, pathVars, loadVars>>

notSeg == <<cdvVars, dvVars, pciVars, bandVars, frameVars, appendVars, pathVars, loadVars>>

notFrame == <<cdvVars, dvVars, pciVars, bandVars, segVars, appendVars, pathVars, loadVars>>

notAppend == <<cdvVars, dvVars, pciVars, bandVars, segVars, frameVars, pathVars, loadVars>>

notPath == <<cdvVars, dvVars, pciVars, bandVars, segVars, frameVars, appendVars, loadVars>>

notLoad == <<cdvVars, dvVars, pciVars, bandVars, segVars, frameVars, appendVars, pathVars>>

---------------------------------------------------------------------------
(* Fixed-point scale: halves as inputs (2), the 9/98 factor of m (98), the *)
(* product of an input and the fraction of m (2 again) and the widest      *)
(* breakpoint gap of a table (20).                                         *)
Unit == 2 * 98 * 2 * 20

\* the largest list the model feeds to applyMultipleDeductCorrection
MaxLen == 3

\* NaN: what undefined * mFraction evaluates to; never equal to a modelled real
NaN == -1

IsNaN(x) == x = NaN

JsMin(a, b) == IF IsNaN(a) \/ IsNaN(b) THEN NaN ELSE IF a < b THEN a ELSE b

JsMax(a, b) == IF IsNaN(a) \/ IsNaN(b) THEN NaN ELSE IF a > b THEN a ELSE b

JsAdd(a, b) == IF IsNaN(a) \/ IsNaN(b) THEN NaN ELSE a + b

\* a > b on doubles: false whenever an operand is NaN
JsGt(a, b) == ~IsNaN(a) /\ ~IsNaN(b) /\ a > b

RECURSIVE SumSeq(_)
SumSeq(s) == IF s = <<>> THEN 0 ELSE JsAdd(s[1], SumSeq(Tail(s)))

\* Math.max(...xs) for a non-empty xs: NaN as soon as one element is NaN
RECURSIVE MaxSeq(_)
MaxSeq(s) == IF Len(s) = 1 THEN s[1] ELSE JsMax(s[1], MaxSeq(Tail(s)))

\* [...xs].sort((a, b) => b - a): insertion into a descending sequence
RECURSIVE InsertDesc(_, _)
InsertDesc(x, s) ==
  IF s = <<>> THEN <<x>>
  ELSE IF x > s[1] THEN <<x>> \o s
  ELSE <<s[1]>> \o InsertDesc(x, Tail(s))

RECURSIVE SortDesc(_)
SortDesc(s) == IF s = <<>> THEN <<>> ELSE InsertDesc(s[1], SortDesc(Tail(s)))

\* xs.slice(0, end) with the language's treatment of negative and large end
JsSlice(s, end) ==
  LET n == Len(s)
      e == IF end < 0 THEN (IF n + end > 0 THEN n + end ELSE 0)
           ELSE (IF end < n THEN end ELSE n)
  IN SubSeq(s, 1, e)

\* a * f for a in Unit and a fraction f in Unit (0 <= f < Unit); the product
\* is split so that no intermediate exceeds the integer range
Times(a, f) == (a \div Unit) * f + ((a % Unit) * f) \div Unit

\* xs[i] * f for a 0-based index i: undefined * f is NaN
JsIndexTimes(s, i, f) ==
  IF i >= 0 /\ i < Len(s) THEN Times(s[i + 1], f) ELSE NaN

---------------------------------------------------------------------------
TRANSVERSE_DEDUCT ==
  [ Low |->
      << <<0, 0>>, <<1, 2>>, <<2, 4>>, <<3, 6>>, <<5, 8>>, <<10, 12>>,
         <<15, 15>>, <<20, 18>>, <<30, 22>>, <<50, 28>>, <<60, 31>>,
         <<70, 34>>, <<80, 36>>, <<90, 38>>, <<100, 40>> >>,
    Medium |->
      << <<0, 0>>, <<1, 4>>, <<2, 8>>, <<3, 11>>, <<5, 15>>, <<10, 22>>,
         <<15, 28>>, <<20, 33>>, <<30, 40>>, <<50, 50>>, <<60, 55>>,
         <<70, 59>>, <<80, 63>>, <<90, 66>>, <<100, 69>> >>,
    High |->
      << <<0, 0>>, <<1, 6>>, <<2, 12>>, <<3, 17>>, <<5, 23>>, <<10, 34>>,
         <<15, 42>>, <<20, 48>>, <<30, 58>>, <<50, 70>>, <<60, 75>>,
         <<70, 79>>, <<80, 83>>, <<90, 86>>, <<100, 89>> >> ]

LONGITUDINAL_DEDUCT ==
  [ Low |->
      << <<0, 0>>, <<1, 1>>, <<5, 3>>, <<10, 5>>, <<20, 8>>, <<30, 11>>,
         <<40, 14>>, <<50, 16>>, <<60, 18>>, <<80, 22>>, <<100, 25>> >>,
    Medium |->
      << <<0, 0>>, <<1, 2>>, <<5, 6>>, <<10, 10>>, <<20, 16>>, <<30, 21>>,
         <<40, 26>>, <<50, 30>>, <<60, 34>>, <<80, 40>>, <<100, 45>> >>,
    High |->
      << <<0, 0>>, <<1, 3>>, <<5, 9>>, <<10, 15>>, <<20, 24>>, <<30, 31>>,
         <<40, 38>>, <<50, 44>>, <<60, 49>>, <<80, 58>>, <<100, 65>> >> ]

ALLIGATOR_DEDUCT ==
  [ Low |->
      << <<0, 0>>, <<1, 3>>, <<5, 8>>, <<10, 14>>, <<20, 22>>, <<30, 28>>,
         <<40, 33>>, <<50, 38>>, <<60, 42>>, <<80, 48>>, <<100, 52>> >>,
    Medium |->
      << <<0, 0>>, <<1, 5>>, <<5, 14>>, <<10, 24>>, <<20, 38>>, <<30, 48>>,
         <<40, 56>>, <<50, 62>>, <<60, 67>>, <<80, 75>>, <<100, 80>> >>,
    High |->
      << <<0, 0>>, <<1, 8>>, <<5, 20>>, <<10, 35>>, <<20, 54>>, <<30, 66>>,
         <<40, 75>>, <<50, 82>>, <<60, 87>>, <<80, 94>>, <<100, 98>> >> ]

POTHOLE_DEDUCT ==
  [ Low |->
      << <<0, 0>>, <<1, 5>>, <<2, 10>>, <<3, 14>>, <<5, 20>>, <<10, 32>>,
         <<15, 40>>, <<20, 46>>, <<30, 55>>, <<50, 68>>, <<60, 74>>,
         <<70, 79>>, <<80, 83>>, <<90, 87>>, <<100, 90>> >>,
    Medium |->
      << <<0, 0>>, <<1, 8>>, <<2, 15>>, <<3, 21>>, <<5, 30>>, <<10, 45>>,
         <<15, 55>>, <<20, 62>>, <<30, 72>>, <<50, 85>>, <<60, 89>>,
         <<70, 92>>, <<80, 95>>, <<90, 97>>, <<100, 99>> >>,
    High |->
      << <<0, 0>>, <<1, 12>>, <<2, 22>>, <<3, 30>>, <<5, 42>>, <<10, 60>>,
         <<15, 72>>, <<20, 80>>, <<30, 90>>, <<50, 100>>, <<60, 100>>,
         <<70, 100>>, <<80, 100>>, <<90, 100>>, <<100, 100>> >> ]

DEDUCT_TABLES ==
  [ transverse |-> TRANSVERSE_DEDUCT, longitudinal |-> LONGITUDINAL_DEDUCT,
    alligator |-> ALLIGATOR_DEDUCT, pothole |-> POTHOLE_DEDUCT ]

CDV_CORRECTION_CURVES ==
  <<
    << <<0, 0>>, <<10, 10>>, <<20, 20>>, <<30, 30>>, <<40, 40>>, <<50, 50>>,
       <<60, 60>>, <<70, 70>>, <<80, 80>>, <<90, 90>>, <<100, 100>>,
       <<110, 100>>, <<120, 100>> >>,
    << <<0, 0>>, <<10, 8>>, <<20, 16>>, <<30, 24>>, <<40, 32>>, <<50, 40>>,
       <<60, 47>>, <<70, 54>>, <<80, 61>>, <<90, 67>>, <<100, 73>>,
       <<110, 78>>, <<120, 82>>, <<140, 88>>, <<160, 93>>, <<180, 96>>,
       <<200, 98>> >>,
    << <<0, 0>>, <<10, 7>>, <<20, 14>>, <<30, 21>>, <<40, 28>>, <<50, 35>>,
       <<60, 42>>, <<70, 48>>, <<80, 54>>, <<90, 60>>, <<100, 65>>,
       <<110, 70>>, <<120, 74>>, <<140, 81>>, <<160, 87>>, <<180, 91>>,
       <<200, 95>> >>,
    << <<0, 0>>, <<10, 6>>, <<20, 13>>, <<30, 19>>, <<40, 26>>, <<50, 32>>,
       <<60, 38>>, <<70, 44>>, <<80, 50>>, <<90, 55>>, <<100, 60>>,
       <<110, 65>>, <<120, 69>>, <<140, 76>>, <<160, 82>>, <<180, 88>>,
       <<200, 92>> >>,
    << <<0, 0>>, <<10, 6>>, <<20, 12>>, <<30, 18>>, <<40, 24>>, <<50, 30>>,
       <<60, 36>>, <<70, 41>>, <<80, 46>>, <<90, 51>>, <<100, 56>>,
       <<110, 61>>, <<120, 65>>, <<140, 72>>, <<160, 78>>, <<180, 84>>,
       <<200, 89>> >>,
    << <<0, 0>>, <<10, 5>>, <<20, 11>>, <<30, 16>>, <<40, 22>>, <<50, 28>>,
       <<60, 33>>, <<70, 38>>, <<80, 43>>, <<90, 48>>, <<100, 53>>,
       <<110, 57>>, <<120, 61>>, <<140, 69>>, <<160, 75>>, <<180, 81>>,
       <<200, 86>> >>,
    << <<0, 0>>, <<10, 5>>, <<20, 10>>, <<30, 15>>, <<40, 21>>, <<50, 26>>,
       <<60, 31>>, <<70, 36>>, <<80, 40>>, <<90, 45>>, <<100, 50>>,
       <<110, 54>>, <<120, 58>>, <<140, 66>>, <<160, 72>>, <<180, 78>>,
       <<200, 83>> >>,
    << <<0, 0>>, <<10, 5>>, <<20, 10>>, <<30, 15>>, <<40, 19>>, <<50, 24>>,
       <<60, 29>>, <<70, 34>>, <<80, 38>>, <<90, 43>>, <<100, 47>>,
       <<110, 51>>, <<120, 55>>, <<140, 63>>, <<160, 69>>, <<180, 75>>,
       <<200, 81>> >>,
    << <<0, 0>>, <<10, 4>>, <<20, 9>>, <<30, 14>>, <<40, 18>>, <<50, 23>>,
       <<60, 27>>, <<70, 32>>, <<80, 36>>, <<90, 40>>, <<100, 45>>,
       <<110, 49>>, <<120, 53>>, <<140, 60>>, <<160, 67>>, <<180, 73>>,
       <<200, 78>> >>,
    << <<0, 0>>, <<10, 4>>, <<20, 9>>, <<30, 13>>, <<40, 17>>, <<50, 22>>,
       <<60, 26>>, <<70, 30>>, <<80, 34>>, <<90, 38>>, <<100, 43>>,
       <<110, 47>>, <<120, 51>>, <<140, 58>>, <<160, 65>>, <<180, 71>>,
       <<200, 76>> >>
  >>

---------------------------------------------------------------------------
\* mutant: the density is not clamped to [0,100] before the lookup
interpolateDeductValue_NoClamp(table, x) ==
  LET n == Len(table)
      hits == { i \in 1..(n - 1) :
                  table[i][1] * Unit <= x /\ table[i + 1][1] * Unit >= x }
      first == CHOOSE i \in hits : \A j \in hits : i <= j
      lo == IF hits = {} THEN 1 ELSE first
      hi == IF hits = {} THEN n ELSE first + 1
  IN table[lo][2] * Unit
       + ((x - table[lo][1] * Unit) * (table[hi][2] - table[lo][2]))
           \div (table[hi][1] - table[lo][1])

(* interpolateDeductValue: a table is the sequence of its <<key, value>>   *)
(* pairs in ascending key order (sortedKeys); the density x is in Unit.    *)
interpolateDeductValue(table, x) ==
  LET n == Len(table)
      clampedDensity == JsMax(0, JsMin(100 * Unit, x))
      exact == { i \in 1..n : table[i][1] * Unit = clampedDensity }
      hits == { i \in 1..(n - 1) :
                  /\ ~IsNaN(clampedDensity)
                  /\ table[i][1] * Unit <= clampedDensity
                  /\ table[i + 1][1] * Unit >= clampedDensity }
      first == CHOOSE i \in hits : \A j \in hits : i <= j
      lowerKey == IF hits = {} THEN table[1][1] ELSE table[first][1]
      upperKey == IF hits = {} THEN table[n][1] ELSE table[first + 1][1]
      lowerValue == IF hits = {} THEN table[1][2] ELSE table[first][2]
      upperValue == IF hits = {} THEN table[n][2] ELSE table[first + 1][2]
  IN IF exact # {} THEN table[CHOOSE i \in exact : TRUE][2] * Unit
     ELSE IF lowerKey = upperKey THEN lowerValue * Unit
     ELSE IF IsNaN(clampedDensity) THEN NaN
     ELSE lowerValue * Unit
            + ((clampedDensity - lowerKey * Unit) * (upperValue - lowerValue))
                \div (upperKey - lowerKey)

\* lines 488-499; a type or severity without a table yields 0
getDeductValue(type, sev, d) ==
  IF type \in DOMAIN DEDUCT_TABLES /\ sev \in DOMAIN DEDUCT_TABLES[type]
  THEN interpolateDeductValue(DEDUCT_TABLES[type][sev], d)
  ELSE 0

\* q is a count here, so Math.round(q) = q
getCDVFromCurve(tdv, q) ==
  LET clampedQ == IF q < 1 THEN 1 ELSE IF q > 10 THEN 10 ELSE q
  IN interpolateDeductValue(CDV_CORRECTION_CURVES[clampedQ], tdv)

---------------------------------------------------------------------------
(* applyMultipleDeductCorrection                                           *)

maxIterations == 20

\* mutant: the threshold test written >= 2.0
CountSignificant_AtLeast2(s) ==
  Cardinality({ i \in 1..Len(s) : ~IsNaN(s[i]) /\ s[i] >= 2 * Unit })

\* xs.filter(dv => dv > 2.0).length
CountSignificant(s) == Cardinality({ i \in 1..Len(s) : JsGt(s[i], 2 * Unit) })

\* m = Math.min(10, 1 + (9 / 98) * (100 - hdv)), in Unit
MaxAllowable(hdv) ==
  LET raw == Unit + (9 * (100 * Unit - hdv)) \div 98
  IN IF raw > 10 * Unit THEN 10 * Unit ELSE raw

\* floor(m)
MFloor(m) == m \div Unit

\* m - floor(m), in Unit
MFraction(m) == m - MFloor(m) * Unit

\* Step 3: slice(0, mFloor) plus the fractional part of the next value
TruncateToM(sortedDeducts) ==
  LET m == MaxAllowable(sortedDeducts[1])
      mFloor == MFloor(m)
      mFraction == MFraction(m)
      kept == JsSlice(sortedDeducts, mFloor)
  IN IF mFraction > 0 /\ Len(sortedDeducts) > mFloor
     THEN Append(kept, JsIndexTimes(sortedDeducts, mFloor, mFraction))
     ELSE kept

\* mutant: the scan starts at the front, so the largest value is reduced
LastSignificant_First(s) ==
  LET sig == { i \in 1..Len(s) : JsGt(s[i], 2 * Unit) }
  IN IF sig = {} THEN 0 ELSE CHOOSE i \in sig : \A j \in sig : i <= j

\* the index the backward scan stops at (0: no deduct > 2.0 was found)
LastSignificant(s) ==
  LET sig == { i \in 1..Len(s) : JsGt(s[i], 2 * Unit) }
  IN IF sig = {} THEN 0 ELSE CHOOSE i \in sig : \A j \in sig : j <= i

\* the values the model feeds in, in Unit: -1, 0, 1.5, 2, 3, 5, 50, 90, 100,
\* 105 and 200
InputValues ==
  { 0 - Unit, 0, (3 * Unit) \div 2, 2 * Unit, 3 * Unit, 5 * Unit, 50 * Unit,
    90 * Unit, 100 * Unit, 105 * Unit, 200 * Unit }

InputLists == UNION { [1..n -> InputValues] : n \in 0..MaxLen }

\* the lengths at which the truncation to m values and the cap of 20
\* iterations come into play
LongLengths == {10, 11, 21, 30}

\* longer lists: n times the value 3, 50 or 200
LongLists ==
  { [i \in 1..n |-> v * Unit] : n \in LongLengths, v \in {3, 50, 200} }

CDVInit ==
  /\ deductValues \in InputLists \cup LongLists
  /\ workingDeducts = <<>>
  /\ cdvResults = <<>>
  /\ iteration = 0
  /\ cdvPc = "start"
  /\ cdvExit = "none"
  /\ maxCDV = 0

\* lines 534-545: the two early returns
CDVReturnDirect ==
  /\ cdvPc = "start"
  /\ Len(deductValues) = 0 \/ CountSignificant(deductValues) <= 1
  /\ maxCDV' = IF Len(deductValues) = 0 THEN 0
               ELSE JsMax(0, JsMin(100 * Unit, SumSeq(deductValues)))
  /\ cdvPc' = "done"
  /\ cdvExit' = "direct"
  /\ UNCHANGED <<deductValues, workingDeducts, cdvResults, iteration, notCdv>>

\* lines 547-567: sort, compute m, truncate, enter the loop
CDVPrepare ==
  /\ cdvPc = "start"
  /\ Len(deductValues) # 0 /\ CountSignificant(deductValues) > 1
  /\ workingDeducts' = TruncateToM(SortDesc(deductValues))
  /\ cdvResults' = <<>>
  /\ iteration' = 0
  /\ cdvPc' = "loop"
  /\ UNCHANGED <<deductValues, cdvExit, maxCDV, notCdv>>

\* lines 569-604: one pass of the while loop
CDVIterate ==
  /\ cdvPc = "loop"
  /\ LET q == CountSignificant(workingDeducts)
         tdv == SumSeq(workingDeducts)
         cdv == getCDVFromCurve(tdv, q)
         i == LastSignificant(workingDeducts)
     IN /\ cdvResults' = Append(cdvResults, cdv)
        /\ IF q <= 1
           THEN /\ cdvPc' = "max"
                /\ cdvExit' = "q"
                /\ UNCHANGED <<workingDeducts, iteration>>
           ELSE IF i = 0
           THEN /\ cdvPc' = "max"
                /\ cdvExit' = "notReduced"
                /\ UNCHANGED <<workingDeducts, iteration>>
           ELSE /\ workingDeducts' = [workingDeducts EXCEPT ![i] = 2 * Unit]
                /\ iteration' = iteration + 1
                /\ IF iteration + 1 < maxIterations
                   THEN UNCHANGED <<cdvPc, cdvExit>>
                   ELSE cdvPc' = "max" /\ cdvExit' = "cap"
  /\ UNCHANGED <<deductValues, maxCDV, notCdv>>

\* lines 606-610: the largest recorded CDV, clamped
CDVFinish ==
  /\ cdvPc = "max"
  /\ maxCDV' = JsMax(0, JsMin(100 * Unit, MaxSeq(cdvResults)))
  /\ cdvPc' = "done"
  /\ UNCHANGED <<deductValues, workingDeducts, cdvResults, iteration, cdvExit, notCdv>>

CDVNext == CDVReturnDirect \/ CDVPrepare \/ CDVIterate \/ CDVFinish

\* applyMultipleDeductCorrection not called
CDVIdle ==
  /\ deductValues = <<>>
  /\ workingDeducts = <<>>
  /\ cdvResults = <<>>
  /\ iteration = 0
  /\ cdvPc = "idle"
  /\ cdvExit = "none"
  /\ maxCDV = 0

---------------------------------------------------------------------------
(* getDeductValue called on one (type, severity, density)                  *)

\* densities run from -1 to MaxDensityQuarters / 4 in steps of a quarter
MaxDensityQuarters == 404

Densities ==
  { (k * Unit) \div 4 : k \in (0 - 4)..MaxDensityQuarters } \cup { 250 * Unit }

DefectTypes == { "transverse", "longitudinal", "alligator", "pothole" }

SeverityLevels == { "Low", "Medium", "High" }

DVInit ==
  /\ defectType \in DefectTypes \cup { "sealed_crack" }
  /\ severity \in SeverityLevels
  /\ density \in Densities
  /\ deductValue = 0
  /\ dvPc = "call"

DVIdle ==
  /\ defectType = "transverse"
  /\ severity = "Low"
  /\ density = 0
  /\ deductValue = 0
  /\ dvPc = "idle"

GetDeductValue ==
  /\ dvPc = "call"
  /\ deductValue' = getDeductValue(defectType, severity, density)
  /\ dvPc' = "done"
  /\ UNCHANGED <<defectType, severity, density, notDv>>

DVNext == GetDeductValue

---------------------------------------------------------------------------
(* Score bands (astmDeductTables.ts), on scores in Fine                    *)

\* calculatePCI works on a second fixed-point scale: a deduct is an integer
\* number of Micro (1e-6), a weighted sum and a score an integer number of
\* Fine (1e-7), and a value rounded to one decimal a number of tenths
Micro == 1000 * 1000

Fine == 10 * Micro

getPCIRating(score) ==
  IF score >= 85 * Fine THEN "Excellent"
  ELSE IF score >= 70 * Fine THEN "Good"
  ELSE IF score >= 55 * Fine THEN "Fair"
  ELSE IF score >= 40 * Fine THEN "Poor"
  ELSE IF score >= 25 * Fine THEN "Very Poor"
  ELSE "Failed"

\* mutant: the top threshold written > 85
getPixelBasedPCIRating_Strict(score) ==
  IF score > 85 * Fine THEN "Good"
  ELSE IF score >= 70 * Fine THEN "Satisfactory"
  ELSE IF score >= 55 * Fine THEN "Fair"
  ELSE IF score >= 40 * Fine THEN "Poor"
  ELSE IF score >= 25 * Fine THEN "Very Poor"
  ELSE IF score >= 10 * Fine THEN "Serious"
  ELSE "Failed"

getPixelBasedPCIRating(score) ==
  IF score >= 85 * Fine THEN "Good"
  ELSE IF score >= 70 * Fine THEN "Satisfactory"
  ELSE IF score >= 55 * Fine THEN "Fair"
  ELSE IF score >= 40 * Fine THEN "Poor"
  ELSE IF score >= 25 * Fine THEN "Very Poor"
  ELSE IF score >= 10 * Fine THEN "Serious"
  ELSE "Failed"

getPCIColor(score) ==
  IF score >= 85 * Fine THEN "#16a34a"
  ELSE IF score >= 70 * Fine THEN "#65a30d"
  ELSE IF score >= 55 * Fine THEN "#facc15"
  ELSE IF score >= 40 * Fine THEN "#f97316"
  ELSE IF score >= 25 * Fine THEN "#ea580c"
  ELSE IF score >= 10 * Fine THEN "#dc2626"
  ELSE "#991b1b"

---------------------------------------------------------------------------
(* calculatePCI (pciCalculator.ts).  A density is a number of hundredths   *)
(* of a percent-point: 25 is 0.25, 10000 is 100.                           *)

\* Math.pow(density, b) to six decimals, in Micro, for the positive densities
\* the model uses (hundredths) and the four exponents (hundredths)
PowTable ==
  (<<25, 45>> :> 535887 @@ <<25, 50>> :> 500000
     @@ <<25, 60>> :> 435275 @@ <<25, 65>> :> 406126)
  @@ (<<30, 45>> :> 581707 @@ <<30, 50>> :> 547723
     @@ <<30, 60>> :> 485593 @@ <<30, 65>> :> 457224)
  @@ (<<100, 45>> :> 1000000 @@ <<100, 50>> :> 1000000
     @@ <<100, 60>> :> 1000000 @@ <<100, 65>> :> 1000000)
  @@ (<<200, 45>> :> 1366040 @@ <<200, 50>> :> 1414214
     @@ <<200, 60>> :> 1515717 @@ <<200, 65>> :> 1569168)
  @@ (<<10000, 45>> :> 7943282 @@ <<10000, 50>> :> 10000000
     @@ <<10000, 60>> :> 15848932 @@ <<10000, 65>> :> 19952623)

\* a in tenths, b in hundredths, max in whole points
curves ==
  [ alligator    |-> [a |-> 280,  b |-> 45, max |-> 80],
    pothole      |-> [a |-> 1000, b |-> 60, max |-> 100],
    longitudinal |-> [a |-> 80,   b |-> 65, max |-> 40],
    transverse   |-> [a |-> 75,   b |-> 60, max |-> 40],
    sealed       |-> [a |-> 30,   b |-> 50, max |-> 15] ]

\* Object.entries(densities): the categories in declaration order, each with
\* the key it is read from
densityKeys ==
  << <<"alligator", "alligator">>, <<"transverse", "transverse">>,
     <<"longitudinal", "longitudinal">>, <<"sealed", "sealed_crack">>,
     <<"pothole", "pothole">> >>

\* pixelPercentages.key ?? 0
DensityOf(px, key) == IF key \in DOMAIN px THEN px[key] ELSE 0

\* curve.a * Math.pow(density, curve.b), in Micro
rawDeduct(type, d) ==
  LET a == curves[type].a
      pw == PowTable[<<d, curves[type].b>>]
  IN a * (pw \div 10) + (a * (pw % 10)) \div 10

\* Math.min(rawDeduct, curve.max)
finalDeduct(type, d) ==
  LET cap == curves[type].max * Micro
      raw == rawDeduct(type, d)
  IN IF raw < cap THEN raw ELSE cap

\* lines 141-159: the deducts pushed, in entry order
RECURSIVE CollectDeducts(_, _)
CollectDeducts(px, i) ==
  IF i > Len(densityKeys) THEN <<>>
  ELSE LET type == densityKeys[i][1]
           d == DensityOf(px, densityKeys[i][2])
       IN IF d > 0 /\ type \in DOMAIN curves
          THEN <<[type |-> type, value |-> finalDeduct(type, d)]>>
                 \o CollectDeducts(px, i + 1)
          ELSE CollectDeducts(px, i + 1)

\* deductValues.sort((a, b) => b.value - a.value): stable, highest first
RECURSIVE InsertByValue(_, _)
InsertByValue(x, s) ==
  IF s = <<>> THEN <<x>>
  ELSE IF x.value >= s[1].value THEN <<x>> \o s
  ELSE <<s[1]>> \o InsertByValue(x, Tail(s))

RECURSIVE SortByValue(_)
SortByValue(s) ==
  IF s = <<>> THEN <<>> ELSE InsertByValue(s[1], SortByValue(Tail(s)))

\* in tenths
weights == <<10, 7, 4, 1>>

\* mutant: positions past the weight list count for nothing
WeightAt_DropTail(i) == IF i <= Len(weights) THEN weights[i] ELSE 0

\* i < weights.length ? weights[i] : 0.1, for a 1-based i
WeightAt(i) == IF i <= Len(weights) THEN weights[i] ELSE 1

\* lines 169-173, in Fine
RECURSIVE WeightedSum(_, _)
WeightedSum(s, i) ==
  IF i > Len(s) THEN 0 ELSE s[i].value * WeightAt(i) + WeightedSum(s, i + 1)

\* mutant: the weighted sum is not capped
CapTotal_None(t) == t

\* total_cdv = Math.min(100, total_cdv)
CapTotal(t) == IF t < 100 * Fine THEN t ELSE 100 * Fine

\* Math.round(x * 10) / 10 for x in Fine, as a number of tenths
RoundFine(x) == (x + Fine \div 20) \div (Fine \div 10)

\* the same for x in Micro
RoundMicro(x) == (x + Micro \div 20) \div (Micro \div 10)

\* sum of the deducts of one category
RECURSIVE DeductOf(_, _)
DeductOf(s, type) ==
  IF s = <<>> THEN 0
  ELSE (IF s[1].type = type THEN s[1].value ELSE 0) + DeductOf(Tail(s), type)

\* the densities the model feeds in (hundredths): -1, 0, 0.3, 2 and 100 for
\* every category, and 0.25 and 1 as well for alligator.  They are chosen so
\* that the fixed-point evaluation and the evaluation on doubles agree on
\* every returned field.
CommonDensities == { 0 - 100, 0, 30, 200, 10000 }

PixelKeys == { "alligator", "transverse", "longitudinal", "sealed_crack", "pothole" }

DensitiesFor(key) ==
  IF key = "alligator" THEN CommonDensities \cup { 25, 100 } ELSE CommonDensities

PixelInputs ==
  UNION { { px \in [keys -> CommonDensities \cup { 25, 100 }] :
              \A k \in keys : px[k] \in DensitiesFor(k) } :
          keys \in SUBSET PixelKeys }

NoResult ==
  [ pci_score |-> 0, pci_rating |-> "", total_deduct_value |-> 0,
    deduct_breakdown |->
      [transverse |-> 0, longitudinal |-> 0, alligator |-> 0, pothole |-> 0] ]

PCIInit ==
  /\ pixelPercentages \in PixelInputs
  /\ pciDeductValues = <<>>
  /\ total_cdv = 0
  /\ pciResult = NoResult
  /\ pciPc = "call"

PCIIdle ==
  /\ pixelPercentages = <<>>
  /\ pciDeductValues = <<>>
  /\ total_cdv = 0
  /\ pciResult = NoResult
  /\ pciPc = "idle"

\* lines 98-217: the sorted deducts, the capped total and the returned object
calculatePCI(px) ==
  LET sorted == SortByValue(CollectDeducts(px, 1))
      capped == CapTotal(WeightedSum(sorted, 1))
      pci_score == IF 100 * Fine - capped > 0 THEN 100 * Fine - capped ELSE 0
  IN [ deductValues |-> sorted,
       total_cdv |-> capped,
       result |->
         [ pci_score |-> RoundFine(pci_score),
           pci_rating |-> getPixelBasedPCIRating(pci_score),
           total_deduct_value |-> RoundFine(capped),
           deduct_breakdown |->
             [ transverse |-> RoundMicro(DeductOf(sorted, "transverse")
                                           + DeductOf(sorted, "sealed")),
               longitudinal |-> RoundMicro(DeductOf(sorted, "longitudinal")),
               alligator |-> RoundMicro(DeductOf(sorted, "alligator")),
               pothole |-> RoundMicro(DeductOf(sorted, "pothole")) ] ] ]

CalculatePCI ==
  /\ pciPc = "call"
  /\ pciDeductValues' = calculatePCI(pixelPercentages).deductValues
  /\ total_cdv' = calculatePCI(pixelPercentages).total_cdv
  /\ pciResult' = calculatePCI(pixelPercentages).result
  /\ pciPc' = "done"
  /\ UNCHANGED <<pixelPercentages, notPci>>

PCINext == CalculatePCI

---------------------------------------------------------------------------
(* The three score-to-band mappings called on one score                    *)

\* scores run from -5.0 to MaxScoreTenths / 10 in steps of a tenth, and each
\* threshold is also approached from below by one Fine
MaxScoreTenths == 1050

Thresholds == { 10, 25, 40, 55, 70, 85 }

Scores ==
  { t * (Fine \div 10) : t \in (0 - 50)..MaxScoreTenths }
    \cup { t * Fine - 1 : t \in Thresholds }

NoBands == [rating |-> "", pixelRating |-> "", color |-> ""]

BandInit ==
  /\ pci \in Scores
  /\ bands = NoBands
  /\ bandPc = "call"

BandIdle ==
  /\ pci = 0
  /\ bands = NoBands
  /\ bandPc = "idle"

RateScore ==
  /\ bandPc = "call"
  /\ bands' = [ rating |-> getPCIRating(pci),
                pixelRating |-> getPixelBasedPCIRating(pci),
                color |-> getPCIColor(pci) ]
  /\ bandPc' = "done"
  /\ UNCHANGED <<pci, notBand>>

BandNext == RateScore

---------------------------------------------------------------------------
(* convertParentTracksToFeatures (app/map/page.tsx).                       *)
(*                                                                         *)
(* A GPS frame is [frame_id, feet, speed_mph]: feet is what turf.distance  *)
(* returns for the step from the previous frame of the recording (0 for    *)
(* the first frame) and stands for the two coordinates, of which the code  *)
(* only uses that distance.  speed_mph is a number of hundredths of a mph. *)
(* A Map or a Set of the code is the sequence of its entries in insertion  *)
(* order wherever the code depends on that order, and a function or a set  *)
(* otherwise.                                                              *)

SEGMENT_LENGTH_FEET == 528

\* speed_mph of the first frame of a recording: undefined
NoSpeed == 0 - 1

\* assigned_segment of a track pushed without one
Unassigned == 0 - 1

\* feetPerSecond * 3600 / 5280, or 0 when the timestamps do not advance
speedMph(distanceFeet, timeDiffSeconds) ==
  IF timeDiffSeconds > 0
  THEN (distanceFeet * 3600 * 100) \div (timeDiffSeconds * 5280)
  ELSE 0

\* the frames parseGpsFrameMappingCsv returns for rows numbered from 0 whose
\* timestamps are timeDiffSeconds apart and whose positions are steps apart
GpsFrames(steps, timeDiffSeconds) ==
  [ i \in 1..(Len(steps) + 1) |->
      [ frame_id |-> i - 1,
        feet |-> IF i = 1 THEN 0 ELSE steps[i - 1],
        speed_mph |-> IF i = 1 THEN NoSpeed
                      ELSE speedMph(steps[i - 1], timeDiffSeconds) ] ]

\* cumulativeDistanceFeet when frames[idx] is pushed to frameDistances
RECURSIVE cumulativeDistanceFeet(_, _)
cumulativeDistanceFeet(frames, idx) ==
  IF idx <= 1 THEN 0
  ELSE cumulativeDistanceFeet(frames, idx - 1) + frames[idx].feet

\* mutant: the segment id is rounded to the nearest segment
segmentIdAt_Rounded(distanceFeet) ==
  (distanceFeet + SEGMENT_LENGTH_FEET \div 2) \div SEGMENT_LENGTH_FEET

\* Math.floor(distanceFeet / SEGMENT_LENGTH_FEET)
segmentIdAt(distanceFeet) == distanceFeet \div SEGMENT_LENGTH_FEET

\* frameToSegment as a function of the frame ids set, a later frame of the
\* same id replacing an earlier one; segmentCoords as the set of its keys
buildFrameToSegmentMap(frames) ==
  LET segmentId(idx) ==
        IF Len(frames) < 2 THEN 0
        ELSE segmentIdAt(cumulativeDistanceFeet(frames, idx))
      lastOf(f) ==
        CHOOSE i \in 1..Len(frames) :
          /\ frames[i].frame_id = f
          /\ \A j \in (i + 1)..Len(frames) : frames[j].frame_id # f
  IN [ frameToSegment |->
         [ f \in { frames[i].frame_id : i \in 1..Len(frames) } |->
             segmentId(lastOf(f)) ],
       segmentCoords |-> { segmentId(i) : i \in 1..Len(frames) } ]

\* for (let i = start; i <= end; i++) frameIds.push(i)
frameRangeIds(frameRange) ==
  IF Len(frameRange) >= 2
  THEN [ i \in 1..(frameRange[2] - frameRange[1] + 1) |-> frameRange[1] + i - 1 ]
  ELSE <<>>

InSeq(x, s) == \E i \in 1..Len(s) : s[i] = x

\* the defects' frame ids not yet included, in the order of the defects
RECURSIVE addDefectFrameIds(_, _)
addDefectFrameIds(frameIds, defects) ==
  IF defects = <<>> THEN frameIds
  ELSE addDefectFrameIds(
         IF InSeq(defects[1].frame_id, frameIds) THEN frameIds
         ELSE Append(frameIds, defects[1].frame_id),
         Tail(defects))

getTrackFrameIds(track) ==
  addDefectFrameIds(frameRangeIds(track.frame_range), track.defects)

\* the Set of segment ids, in insertion order
RECURSIVE getTrackSegments(_, _)
getTrackSegments(frameIds, frameToSegment) ==
  IF frameIds = <<>> THEN <<>>
  ELSE LET before == getTrackSegments(SubSeq(frameIds, 1, Len(frameIds) - 1),
                                      frameToSegment)
           frameId == frameIds[Len(frameIds)]
       IN IF frameId \notin DOMAIN frameToSegment THEN before
          ELSE IF InSeq(frameToSegment[frameId], before) THEN before
          ELSE Append(before, frameToSegment[frameId])

\* frameToSpeedMap.set for the frames of one mapping, in order
RECURSIVE setFrameSpeeds(_, _)
setFrameSpeeds(speedMap, frames) ==
  IF frames = <<>> THEN speedMap
  ELSE setFrameSpeeds(
         IF frames[1].speed_mph = NoSpeed THEN speedMap
         ELSE (frames[1].frame_id :> frames[1].speed_mph) @@ speedMap,
         Tail(frames))

\* one map for the frames of all jobs, keyed by frame_id alone
RECURSIVE buildFrameToSpeedMap(_, _)
buildFrameToSpeedMap(speedMap, mappings) ==
  IF mappings = <<>> THEN speedMap
  ELSE buildFrameToSpeedMap(setFrameSpeeds(speedMap, mappings[1].frames),
                            Tail(mappings))

\* trackDamage: defects that are no sealed_crack and whose frame has no
\* speed in the map or a speed >= 5 mph
RECURSIVE trackDamage(_, _)
trackDamage(defects, speedMap) ==
  IF defects = <<>> THEN 0
  ELSE (IF /\ defects[1].defect_type # "sealed_crack"
           /\ \/ defects[1].frame_id \notin DOMAIN speedMap
              \/ speedMap[defects[1].frame_id] >= 500
        THEN 1 ELSE 0)
       + trackDamage(Tail(defects), speedMap)

\* processedChild, with the fields the segment builder reads
processChild(childTrack, parentJobId, parentTrackId, speedMap) ==
  [ track_id |-> childTrack.track_id,
    parent_track_id |-> parentTrackId,
    job_id |-> parentJobId,
    track_damage |-> trackDamage(childTrack.defects, speedMap),
    coordinates |-> childTrack.coordinates,
    frame_ids |-> getTrackFrameIds(childTrack),
    assigned_segment |-> Unassigned ]

\* the entry pushed to allParentTracks for one feature
processFeature(feature, speedMap) ==
  [ parent_track_id |-> feature.parent_track_id,
    job_id |-> feature.job_id,
    frame_ids |-> getTrackFrameIds(feature),
    children |->
      [ c \in 1..Len(feature.child_tracks) |->
          processChild(feature.child_tracks[c], feature.job_id,
                       feature.parent_track_id, speedMap) ] ]

\* jobFrameToSegment
buildJobMappings(mappings) ==
  [ jobId \in { mappings[i].job_id : i \in 1..Len(mappings) } |->
      buildFrameToSegmentMap(
        mappings[CHOOSE i \in 1..Len(mappings) : mappings[i].job_id = jobId].frames) ]

\* position of the key jobId:segmentId in segmentData, 0 when absent
segKeyIndex(data, jobId, segmentId) ==
  IF \E i \in 1..Len(data) : data[i].job_id = jobId /\ data[i].segment_id = segmentId
  THEN CHOOSE i \in 1..Len(data) :
         data[i].job_id = jobId /\ data[i].segment_id = segmentId
  ELSE 0

\* if (!segmentData.has(segKey)) segmentData.set(segKey, {damage: 0, ...})
ensureSegment(data, jobId, segmentId) ==
  IF segKeyIndex(data, jobId, segmentId) # 0 THEN data
  ELSE Append(data, [ job_id |-> jobId, segment_id |-> segmentId,
                      damage |-> 0, tracks |-> <<>> ])

\* segData.damage += child.track_damage; segData.tracks.push(track)
addTrack(data, jobId, segmentId, track) ==
  LET i == segKeyIndex(data, jobId, segmentId)
  IN [ data EXCEPT ![i].damage = @ + track.track_damage,
                   ![i].tracks = Append(@, track) ]

\* mutant: only the first child of the parent is added
addChildren_FirstOnly(data, jobId, segmentId, children, assigned) ==
  IF children = <<>> THEN data
  ELSE addTrack(data, jobId, segmentId,
                [children[1] EXCEPT !.assigned_segment = assigned])

\* parent.children.forEach into one segment
RECURSIVE addChildren(_, _, _, _, _)
addChildren(data, jobId, segmentId, children, assigned) ==
  IF children = <<>> THEN data
  ELSE addChildren(
         addTrack(data, jobId, segmentId,
                  [children[1] EXCEPT !.assigned_segment = assigned]),
         jobId, segmentId, Tail(children), assigned)

\* segmentsToAssign.forEach for one child
RECURSIVE assignChild(_, _, _, _)
assignChild(data, jobId, segs, child) ==
  IF segs = <<>> THEN data
  ELSE assignChild(
         addTrack(ensureSegment(data, jobId, segs[1]), jobId,
                  segs[1],
                  [child EXCEPT !.assigned_segment = segs[1]]),
         jobId, Tail(segs), child)

\* mutant: a child goes to the parent's first segment only
segmentsToAssign_First(child, parentSegments, frameToSegment) ==
  <<parentSegments[1]>>

\* childSegments, or the parent's first segment when the child has none
segmentsToAssign(child, parentSegments, frameToSegment) ==
  IF getTrackSegments(child.frame_ids, frameToSegment) # <<>>
  THEN getTrackSegments(child.frame_ids, frameToSegment)
  ELSE <<parentSegments[1]>>

\* parent.children.forEach of the multi-segment branch
RECURSIVE assignEachChild(_, _, _, _, _)
assignEachChild(data, jobId, parentSegments, children, frameToSegment) ==
  IF children = <<>> THEN data
  ELSE assignEachChild(
         assignChild(data, jobId,
                     segmentsToAssign(children[1], parentSegments, frameToSegment),
                     children[1]),
         jobId, parentSegments, Tail(children), frameToSegment)

\* mutant: a parent within one segment always goes to segment 0
singleSegmentId_Zero(parentSegments) == 0

\* parentSegments.size === 1 ? Array.from(parentSegments)[0] : 0
singleSegmentId(parentSegments) ==
  IF Len(parentSegments) = 1 THEN parentSegments[1] ELSE 0

\* the geometry of a segment: its GPS coordinates, else the coordinates of
\* its first track, else none (the segment is skipped)
hasGeometry(entry, mappings) ==
  \/ /\ entry.job_id \in DOMAIN mappings
     /\ entry.segment_id \in mappings[entry.job_id].segmentCoords
  \/ /\ Len(entry.tracks) > 0
     /\ entry.tracks[1].coordinates

\* pixel_percentage_with_projections of an entry of a video-segment index:
\* an object of percentages, or absent
Percentages(px) == [ defined |-> TRUE, value |-> px ]

NoPercentages == [ defined |-> FALSE, value |-> <<>> ]

\* pixelData = {}: no pixel data is spread into the properties
NoPixelData == [ stored |-> FALSE, pixel_percentage_with_projections |-> NoPercentages ]

\* mutant: the index is read as 0-indexed like the segment ids
matchingSegment_ZeroIndexed(index, jobId, segmentId) ==
  LET entries == IF jobId \in DOMAIN index THEN index[jobId] ELSE <<>>
      hits == { i \in 1..Len(entries) : entries[i].segment_id = segmentId }
  IN IF hits # {}
     THEN [ found |-> TRUE,
            segment |-> entries[CHOOSE i \in hits : \A j \in hits : i <= j] ]
     ELSE [ found |-> FALSE,
            segment |-> [ segment_id |-> 0,
                          pixel_percentage_with_projections |-> NoPercentages ] ]

\* videoSegments[jobId].segmentsIndex.segments.find(seg => seg.segment_id
\* === segmentId + 1): the first such entry, if the job has an index
matchingSegment(index, jobId, segmentId) ==
  LET entries == IF jobId \in DOMAIN index THEN index[jobId] ELSE <<>>
      hits == { i \in 1..Len(entries) : entries[i].segment_id = segmentId + 1 }
  IN IF hits # {}
     THEN [ found |-> TRUE,
            segment |-> entries[CHOOSE i \in hits : \A j \in hits : i <= j] ]
     ELSE [ found |-> FALSE,
            segment |-> [ segment_id |-> 0,
                          pixel_percentage_with_projections |-> NoPercentages ] ]

\* the Feature pushed for one entry of segmentData
segmentFeature(entry, index) ==
  LET matching == matchingSegment(index, entry.job_id, entry.segment_id)
      stated == matching.segment.pixel_percentage_with_projections
      percentages == IF matching.found /\ stated.defined THEN stated.value ELSE <<>>
      result == calculatePCI(percentages).result
  IN [ job_id |-> entry.job_id,
       segment_id |-> entry.segment_id + 1,
       damage_count |-> entry.damage,
       start_feet |-> entry.segment_id * SEGMENT_LENGTH_FEET,
       end_feet |-> (entry.segment_id + 1) * SEGMENT_LENGTH_FEET,
       overlapping_tracks |-> entry.tracks,
       pci_score |-> result.pci_score,
       pci_rating |-> result.pci_rating,
       pixelData |->
         IF matching.found
         THEN [ stored |-> TRUE, pixel_percentage_with_projections |-> stated ]
         ELSE NoPixelData ]

\* segmentData.forEach
RECURSIVE emitSegments(_, _, _)
emitSegments(data, mappings, index) ==
  IF data = <<>> THEN <<>>
  ELSE (IF hasGeometry(data[1], mappings)
        THEN <<segmentFeature(data[1], index)>>
        ELSE <<>>)
       \o emitSegments(Tail(data), mappings, index)

\* the job ids of the model, in the order localeCompare gives them
Jobs == <<"a", "b">>

JobIds == { Jobs[i] : i \in 1..Len(Jobs) }

localeCompare(x, y) ==
  (CHOOSE i \in 1..Len(Jobs) : Jobs[i] = x) - (CHOOSE i \in 1..Len(Jobs) : Jobs[i] = y)

\* mutant: the comparator looks at the segment id alone
compareSegments_SegmentOnly(a, b) == a.segment_id - b.segment_id

\* the comparator of segments.sort
compareSegments(a, b) ==
  IF localeCompare(a.job_id, b.job_id) # 0
  THEN localeCompare(a.job_id, b.job_id)
  ELSE a.segment_id - b.segment_id

\* Array.prototype.sort is stable
RECURSIVE insertSegment(_, _)
insertSegment(sorted, x) ==
  IF sorted = <<>> THEN <<x>>
  ELSE IF compareSegments(x, sorted[Len(sorted)]) >= 0 THEN Append(sorted, x)
  ELSE Append(insertSegment(SubSeq(sorted, 1, Len(sorted) - 1), x),
              sorted[Len(sorted)])

RECURSIVE sortSegments(_)
sortSegments(s) ==
  IF s = <<>> THEN <<>>
  ELSE insertSegment(sortSegments(SubSeq(s, 1, Len(s) - 1)), s[Len(s)])

\* ---- the loads the model feeds in ----

\* frames of the recording of the first job; child tracks of one parent track
MaxFrames == 3

MaxChildren == 2

\* feet between two consecutive frames: within a segment, and past one
Steps == { 300, 1100 }

\* seconds between two consecutive frames: 300 ft is above 5 mph at 30 s
\* and below at 60 s
TimeDiffs == { 30, 60 }

Recordings(maxFrames) ==
  { GpsFrames(steps, t) :
      steps \in UNION { [1..n -> Steps] : n \in 0..(maxFrames - 1) },
      t \in TimeDiffs }

\* gpsFrameMappings holds an entry only for a job whose CSV gave frames
mappingEntries(framesOf) ==
  SelectSeq([ i \in 1..Len(Jobs) |-> [ job_id |-> Jobs[i], frames |-> framesOf[Jobs[i]] ] ],
            LAMBDA e : e.frames # <<>>)

Reverse(s) == [ i \in 1..Len(s) |-> s[Len(s) + 1 - i] ]

\* every job has no mapping or a recording, the jobs after the first one a
\* recording of at most two frames; the entries are in the order in which
\* the fetches of the CSVs completed
GpsLoads ==
  LET inOrder ==
        { mappingEntries(framesOf) :
            framesOf \in { f \in [JobIds -> Recordings(MaxFrames) \cup { <<>> }] :
                             \A i \in 2..Len(Jobs) : Len(f[Jobs[i]]) <= 2 } }
  IN inOrder \cup { Reverse(m) : m \in inOrder }

ParentRanges == { <<0, 2>>, <<2, 2>> }

ChildRanges == { <<0, 2>>, <<3, 3>> }

DefectLists ==
  { << [frame_id |-> 1, defect_type |-> "crack"] >>,
    << [frame_id |-> 2, defect_type |-> "sealed_crack"],
       [frame_id |-> 3, defect_type |-> "pothole"],
       [frame_id |-> 2, defect_type |-> "crack"] >> }

ChildTracks == [ frame_range : ChildRanges, defects : DefectLists ]

ChildLists(maxChildren) == UNION { [1..n -> ChildTracks] : n \in 1..maxChildren }

ParentTracks(maxChildren) ==
  [ job_id : JobIds, frame_range : ParentRanges, child_tracks : ChildLists(maxChildren) ]

\* track ids are distinct: feature p is parent p, its child c is track 10p + c;
\* the child tracks of a load all carry coordinates, or none does
numbered(parents, coordinates) ==
  [ p \in 1..Len(parents) |->
      [ parent_track_id |-> p,
        job_id |-> parents[p].job_id,
        frame_range |-> parents[p].frame_range,
        defects |-> <<>>,
        child_tracks |->
          [ c \in 1..Len(parents[p].child_tracks) |->
              [ track_id |-> 10 * p + c,
                frame_range |-> parents[p].child_tracks[c].frame_range,
                defects |-> parents[p].child_tracks[c].defects,
                coordinates |-> coordinates ] ] ] ]

\* one feature of up to MaxChildren child tracks, or two features of one
\* child track each
FeatureLoads ==
  { numbered(parents, coordinates) :
      parents \in [1..1 -> ParentTracks(MaxChildren)] \cup [1..2 -> ParentTracks(1)],
      coordinates \in BOOLEAN }

\* the index of job a: segment 1 with an alligator percentage of 0.25,
\* segment 3 without percentages, and a second entry for segment 1
VideoIndex ==
  << [ segment_id |-> 1,
       pixel_percentage_with_projections |-> Percentages([alligator |-> 25]) ],
     [ segment_id |-> 3, pixel_percentage_with_projections |-> NoPercentages ],
     [ segment_id |-> 1,
       pixel_percentage_with_projections |-> Percentages([pothole |-> 10000]) ] >>

\* the index of the first job; the second job has none
VideoLoads == { (Jobs[1] :> VideoIndex) }

SegInit ==
  /\ features \in FeatureLoads
  /\ gpsFrameMappings \in GpsLoads
  /\ videoSegments \in VideoLoads
  /\ frameToSpeedMap = <<>>
  /\ allParentTracks = <<>>
  /\ jobFrameToSegment = <<>>
  /\ segmentData = <<>>
  /\ segments = <<>>
  /\ parentIdx = 0
  /\ segPc = "process"

SegIdle ==
  /\ features = <<>>
  /\ gpsFrameMappings = <<>>
  /\ videoSegments = <<>>
  /\ frameToSpeedMap = <<>>
  /\ allParentTracks = <<>>
  /\ jobFrameToSegment = <<>>
  /\ segmentData = <<>>
  /\ segments = <<>>
  /\ parentIdx = 0
  /\ segPc = "idle"

\* lines 795-940: the speed map, the processed tracks, the job mappings
ProcessFeatures ==
  /\ segPc = "process"
  /\ frameToSpeedMap' = buildFrameToSpeedMap(<<>>, gpsFrameMappings)
  /\ allParentTracks' =
       [ p \in 1..Len(features) |->
           processFeature(features[p], buildFrameToSpeedMap(<<>>, gpsFrameMappings)) ]
  /\ jobFrameToSegment' = buildJobMappings(gpsFrameMappings)
  /\ parentIdx' = 1
  /\ segPc' = "assign"
  /\ UNCHANGED <<features, gpsFrameMappings, videoSegments, segmentData, segments, notSeg>>

\* lines 957-979: the job of the parent has no GPS mapping
AssignNoMapping ==
  /\ segPc = "assign"
  /\ parentIdx <= Len(allParentTracks)
  /\ LET parent == allParentTracks[parentIdx]
     IN /\ parent.job_id \notin DOMAIN jobFrameToSegment
        /\ segmentData' =
             addChildren(ensureSegment(segmentData, parent.job_id, 0),
                         parent.job_id, 0, parent.children, Unassigned)
  /\ parentIdx' = parentIdx + 1
  /\ UNCHANGED <<features, gpsFrameMappings, videoSegments, frameToSpeedMap, allParentTracks,
                 jobFrameToSegment, segments, segPc, notSeg>>

\* lines 981-1009: the parent's frames lie in at most one segment
AssignOneSegment ==
  /\ segPc = "assign"
  /\ parentIdx <= Len(allParentTracks)
  /\ LET parent == allParentTracks[parentIdx]
     IN /\ parent.job_id \in DOMAIN jobFrameToSegment
        /\ LET parentSegments ==
                 getTrackSegments(parent.frame_ids,
                                  jobFrameToSegment[parent.job_id].frameToSegment)
               segmentId == singleSegmentId(parentSegments)
           IN /\ Len(parentSegments) <= 1
              /\ segmentData' =
                   addChildren(ensureSegment(segmentData, parent.job_id, segmentId),
                               parent.job_id, segmentId, parent.children, segmentId)
  /\ parentIdx' = parentIdx + 1
  /\ UNCHANGED <<features, gpsFrameMappings, videoSegments, frameToSpeedMap, allParentTracks,
                 jobFrameToSegment, segments, segPc, notSeg>>

\* lines 1010-1043: the parent spans several segments
AssignEachChild ==
  /\ segPc = "assign"
  /\ parentIdx <= Len(allParentTracks)
  /\ LET parent == allParentTracks[parentIdx]
     IN /\ parent.job_id \in DOMAIN jobFrameToSegment
        /\ LET frameToSegment == jobFrameToSegment[parent.job_id].frameToSegment
               parentSegments == getTrackSegments(parent.frame_ids, frameToSegment)
           IN /\ Len(parentSegments) > 1
              /\ segmentData' =
                   assignEachChild(segmentData, parent.job_id, parentSegments,
                                   parent.children, frameToSegment)
  /\ parentIdx' = parentIdx + 1
  /\ UNCHANGED <<features, gpsFrameMappings, videoSegments, frameToSpeedMap, allParentTracks,
                 jobFrameToSegment, segments, segPc, notSeg>>

\* lines 1050-1149: the features of the segments, sorted
EmitSegments ==
  /\ segPc = "assign"
  /\ parentIdx > Len(allParentTracks)
  /\ segments' =
       sortSegments(emitSegments(segmentData, jobFrameToSegment, videoSegments))
  /\ segPc' = "done"
  /\ UNCHANGED <<features, gpsFrameMappings, videoSegments, frameToSpeedMap, allParentTracks,
                 jobFrameToSegment, segmentData, parentIdx, notSeg>>

SegNext ==
  AssignNoMapping \/ AssignOneSegment \/ AssignEachChild \/ ProcessFeatures \/ EmitSegments

---------------------------------------------------------------------------
(* Frame and detection normaliser (app/map/page.tsx, lines 222-647).       *)
(*                                                                         *)
(* An id (defect_id, id, track_id, track) is a positive number standing    *)
(* for a non-empty string; a timestamp is a number of milliseconds; a      *)
(* confidence is a number of hundred-thousandths and a bbox coordinate a   *)
(* number of thousandths, so that toFixed(4) and toFixed(2) round.  A      *)
(* class_name or defect_type is a string, the empty string standing for an *)
(* absent one.  A bbox is a sequence, the empty sequence standing for an   *)
(* absent one.  A frame identifier is absent, a number or a string.  A     *)
(* geometry coordinate is a fraction <<numerator, denominator>>, the       *)
(* denominator 0 standing for NaN.  Of the properties of a feature or of a *)
(* detection the model keeps the ones these functions compute with; the    *)
(* image URLs, the severity and the spatial fields are copied by the code  *)
(* and never compared.                                                     *)

\* a property that is undefined or null
Undefined == 0 - 1

NoValue == [kind |-> "undefined", num |-> 0, text |-> ""]

Num(n) == [kind |-> "number", num |-> n, text |-> ""]

Str(t) == [kind |-> "string", num |-> 0, text |-> t]

\* a ?? b on numbers
OrElse(a, b) == IF a = Undefined THEN b ELSE a

\* a ?? b on frame identifiers
Coalesce(a, b) == IF a.kind = "undefined" THEN b ELSE a

\* a || b on strings
OrText(a, b) == IF a = "" THEN b ELSE a

\* String.prototype.trim on the strings of the model
trim(t) == IF t \in {" 1", "1 "} THEN "1" ELSE IF t = " " THEN "" ELSE t

\* Number(text): NaN for a text that is no numeric literal
JsNumber(t) ==
  CASE t \in {"1", "01", " 1", "1 "} -> 1
    [] t = "2" -> 2
    [] t \in {"", " "} -> 0
    [] OTHER -> NaN

\* Number.prototype.toString on the frame numbers of the model
numberToString(n) ==
  CASE n = 0 -> "0"
    [] n = 1 -> "1"
    [] n = 2 -> "2"
    [] n = 3 -> "3"
    [] OTHER -> "4"

\* `${frame}` of a frame identifier
frameText(v) ==
  CASE v.kind = "number" -> numberToString(v.num)
    [] v.kind = "string" -> v.text
    [] OTHER -> "frame-unknown"

\* Number.prototype.toFixed keeping one decimal digit less than x has:
\* to the nearest, a half away from zero
toFixed(x) == IF x >= 0 THEN (x + 5) \div 10 ELSE 0 - ((5 - x) \div 10)

\* lines 222-242, on a number or an absent value
coerceToTimestamp(value) ==
  IF value = Undefined \/ IsNaN(value) THEN Undefined ELSE value

\* lines 393-397, on a number or an absent value
coerceToFiniteNumber(value) ==
  IF value = Undefined \/ IsNaN(value) THEN Undefined ELSE value

\* a detection of all_detections_in_frame, or a summary of one
Detection(defect_id, id, frame_id, track_id, class_name, confidence, bbox) ==
  [ isNull |-> FALSE,
    defect_id |-> defect_id,
    id |-> id,
    frame_id |-> frame_id,
    frame_number |-> NoValue,
    track_id |-> track_id,
    track |-> Undefined,
    class_name |-> class_name,
    defect_type |-> "",
    confidence |-> confidence,
    bbox |-> bbox,
    gps_timestamp |-> Undefined,
    coordinates |-> <<>> ]

\* a null entry of all_detections_in_frame
NullDetection ==
  [ Detection(Undefined, Undefined, NoValue, Undefined, "", Undefined, <<>>)
      EXCEPT !.isNull = TRUE ]

\* the key of a detection without any: buildDetectionDedupKey returns null
NoKey ==
  [ kind |-> "null", defect |-> Undefined, frame |-> "", track |-> Undefined,
    className |-> "", confidence |-> Undefined, bbox |-> <<>> ]

\* lines 271-289
buildDetectionDedupKey(detection, fallbackFrameId) ==
  IF detection.isNull THEN NoKey
  ELSE IF OrElse(detection.defect_id, detection.id) # Undefined
  THEN [ NoKey EXCEPT !.kind = "defect",
                      !.defect = OrElse(detection.defect_id, detection.id) ]
  ELSE [ kind |-> "composite",
         defect |-> Undefined,
         frame |-> frameText(Coalesce(detection.frame_id,
                               Coalesce(detection.frame_number, fallbackFrameId))),
         track |-> OrElse(detection.track_id, detection.track),
         className |-> IF OrText(detection.class_name, detection.defect_type) = ""
                       THEN "class-unknown"
                       ELSE OrText(detection.class_name, detection.defect_type),
         confidence |-> IF detection.confidence = Undefined \/ IsNaN(detection.confidence)
                        THEN Undefined
                        ELSE toFixed(detection.confidence),
         bbox |-> [ i \in 1..Len(detection.bbox) |->
                      IF IsNaN(detection.bbox[i]) THEN Undefined
                      ELSE toFixed(detection.bbox[i]) ] ]

\* lines 296-310: detections.forEach with the Set seen
RECURSIVE dedupeFrom(_, _, _, _)
dedupeFrom(detections, fallbackFrameId, seen, result) ==
  IF detections = <<>> THEN result
  ELSE LET key == buildDetectionDedupKey(detections[1], fallbackFrameId)
       IN IF key # NoKey /\ key \in seen
          THEN dedupeFrom(Tail(detections), fallbackFrameId, seen, result)
          ELSE dedupeFrom(Tail(detections), fallbackFrameId,
                          IF key # NoKey THEN seen \cup {key} ELSE seen,
                          Append(result, detections[1]))

\* mutant: nothing is dropped
dedupeDetectionsArray_KeepAll(detections, fallbackFrameId) == detections

\* lines 291-311
dedupeDetectionsArray(detections, fallbackFrameId) ==
  IF Len(detections) < 2 THEN detections
  ELSE dedupeFrom(detections, fallbackFrameId, {}, <<>>)

\* lines 318-322, on a frame identifier: null, or the number
coerceToNumber(value) ==
  CASE value.kind = "number" -> value
    [] value.kind = "string" ->
         IF IsNaN(JsNumber(value.text)) THEN NoValue ELSE Num(JsNumber(value.text))
    [] OTHER -> NoValue

\* lines 324-332: frame_id and frame_number as numbers where they are numeric
coerceFrameFields(properties) ==
  LET frameIdNumber == coerceToNumber(properties.frame_id)
      frameNumberValue ==
        IF properties.frame_number.kind # "undefined"
        THEN coerceToNumber(properties.frame_number)
        ELSE frameIdNumber
  IN [ properties EXCEPT
         !.frame_id = Coalesce(frameIdNumber, @),
         !.frame_number = Coalesce(frameNumberValue, @),
         !.gps_timestamp = OrElse(coerceToTimestamp(@), @) ]

\* lines 360-371: the one detection made of the properties of the feature
flatDetection(properties) ==
  Detection(properties.defect_id, Undefined,
            Coalesce(properties.frame_id, properties.frame_number),
            properties.track_id, "", properties.confidence, <<>>)

\* lines 358-376
countDetections(properties, mode) ==
  IF mode = "data"
  THEN LET all == IF ~properties.detections_array
                     \/ properties.all_detections_in_frame = <<>>
                  THEN <<flatDetection(properties)>>
                  ELSE properties.all_detections_in_frame
           stated == properties.detection_count_in_frame
       IN [ properties EXCEPT
              !.detections_array = TRUE,
              !.all_detections_in_frame = all,
              !.detection_count_in_frame =
                 JsMax(IF stated = Undefined \/ stated = 0 THEN Len(all) ELSE stated,
                       1) ]
  ELSE IF properties.detection_count_in_frame = Undefined
          /\ properties.detections_array
  THEN [ properties EXCEPT
           !.detection_count_in_frame = Len(properties.all_detections_in_frame) ]
  ELSE properties

\* lines 378-384
dedupeProperties(properties) ==
  IF properties.detections_array
  THEN LET deduped == dedupeDetectionsArray(
                        properties.all_detections_in_frame,
                        Coalesce(properties.frame_id, properties.frame_number))
       IN [ properties EXCEPT
              !.all_detections_in_frame = deduped,
              !.detection_count_in_frame = Len(deduped) ]
  ELSE properties

\* lines 313-391
normalizeFeatureProperties(feature, mode) ==
  [ feature EXCEPT
      !.properties = dedupeProperties(countDetections(coerceFrameFields(@), mode)) ]

\* the result of deriveFrameIdentifier when it returns null
NoFrameInfo == [key |-> "", numeric |-> Undefined]

\* lines 401-408; frameNumber, frame and frame_index are read after frameId
\* in the same way and no modelled feature carries one
frameCandidates(properties) ==
  <<properties.frame_id, properties.frame_number, properties.frameId>>

\* lines 410-430
RECURSIVE firstFrameIdentifier(_)
firstFrameIdentifier(candidates) ==
  IF candidates = <<>> THEN NoFrameInfo
  ELSE LET candidate == candidates[1]
       IN IF candidate.kind = "string" /\ trim(candidate.text) # ""
          THEN [ key |-> trim(candidate.text),
                 numeric |-> IF IsNaN(JsNumber(trim(candidate.text)))
                             THEN Undefined
                             ELSE JsNumber(trim(candidate.text)) ]
          ELSE IF candidate.kind = "number"
          THEN [ key |-> numberToString(candidate.num),
                 numeric |-> candidate.num ]
          ELSE firstFrameIdentifier(Tail(candidates))

\* lines 399-431
deriveFrameIdentifier(properties) ==
  firstFrameIdentifier(frameCandidates(properties))

\* lines 433-503: the summary of one detection of a feature, or of the
\* feature itself when there is no detection to override its properties
extractDetectionSummary(feature, detectionOverride) ==
  LET fallbackProps == feature.properties
      props ==
        IF ~detectionOverride.isNull
        THEN [ defect_id |-> detectionOverride.defect_id,
               defect_type |-> detectionOverride.defect_type,
               class_name |-> detectionOverride.class_name,
               track_id |-> detectionOverride.track_id,
               frame_id |-> detectionOverride.frame_id,
               frame_number |-> detectionOverride.frame_number,
               confidence |-> detectionOverride.confidence,
               gps_timestamp |-> detectionOverride.gps_timestamp,
               globalTimestamp |-> Undefined,
               bbox |-> detectionOverride.bbox ]
        ELSE [ defect_id |-> fallbackProps.defect_id,
               defect_type |-> fallbackProps.defect_type,
               class_name |-> fallbackProps.class_name,
               track_id |-> fallbackProps.track_id,
               frame_id |-> fallbackProps.frame_id,
               frame_number |-> fallbackProps.frame_number,
               confidence |-> fallbackProps.confidence,
               gps_timestamp |-> fallbackProps.gps_timestamp,
               globalTimestamp |-> fallbackProps.globalTimestamp,
               bbox |-> fallbackProps.bbox ]
  IN [ isNull |-> FALSE,
       defect_id |-> OrElse(props.defect_id, fallbackProps.defect_id),
       id |-> Undefined,
       frame_id |-> Coalesce(props.frame_id,
                      Coalesce(props.frame_number,
                        Coalesce(fallbackProps.frame_id, fallbackProps.frame_number))),
       frame_number |-> NoValue,
       track_id |-> OrElse(props.track_id, fallbackProps.track_id),
       track |-> Undefined,
       class_name |-> OrText(props.class_name,
                        OrText(props.defect_type,
                          OrText(fallbackProps.class_name, fallbackProps.defect_type))),
       defect_type |-> OrText(props.defect_type,
                         OrText(props.class_name,
                           OrText(fallbackProps.defect_type, fallbackProps.class_name))),
       confidence |-> coerceToFiniteNumber(OrElse(props.confidence,
                                                  fallbackProps.confidence)),
       bbox |-> IF props.bbox # <<>> THEN props.bbox ELSE fallbackProps.bbox,
       gps_timestamp |->
         coerceToTimestamp(
           OrElse(props.gps_timestamp,
             OrElse(props.globalTimestamp,
               OrElse(fallbackProps.gps_timestamp, fallbackProps.globalTimestamp)))),
       coordinates |-> IF feature.geometry.type = "Point"
                       THEN feature.geometry.coordinates
                       ELSE <<>> ]

\* lines 505-511
gatherDetectionsForFeature(feature) ==
  IF feature.properties.detections_array
     /\ feature.properties.all_detections_in_frame # <<>>
  THEN [ i \in 1..Len(feature.properties.all_detections_in_frame) |->
           extractDetectionSummary(feature,
                                   feature.properties.all_detections_in_frame[i]) ]
  ELSE <<extractDetectionSummary(feature, NullDetection)>>

\* a + b on fractions
FracAdd(a, b) == <<a[1] * b[2] + b[1] * a[2], a[2] * b[2]>>

\* typeof value === 'number' && Number.isFinite(value)
IsFiniteNumber(value) == value[2] # 0

\* lines 518-528: some frame key is derived from more than one feature
needsAggregation(featureList) ==
  \E i, j \in 1..Len(featureList) :
    /\ i # j
    /\ deriveFrameIdentifier(featureList[i].properties).key # ""
    /\ deriveFrameIdentifier(featureList[i].properties).key
         = deriveFrameIdentifier(featureList[j].properties).key

\* lines 546-562: the entry of framesMap made from the first feature of a key
newFrameFeature(feature, frameInfo) ==
  [ key |-> frameInfo.key,
    geometry |-> feature.geometry,
    properties |->
      [ feature.properties EXCEPT
          !.frame_id =
             IF frameInfo.numeric # Undefined THEN Num(frameInfo.numeric)
             ELSE Coalesce(feature.properties.frame_id,
                           feature.properties.frame_number),
          !.frame_number =
             Coalesce(feature.properties.frame_number,
               IF frameInfo.numeric # Undefined THEN Num(frameInfo.numeric)
               ELSE feature.properties.frame_id),
          !.detections_array = TRUE,
          !.all_detections_in_frame = <<>>,
          !.detection_count_in_frame = 0 ],
    sourceUrls |-> IF feature.properties.sourceUrl # ""
                   THEN <<feature.properties.sourceUrl>>
                   ELSE <<>>,
    coordinateAccumulator |-> [ latSum |-> <<0, 1>>, lngSum |-> <<0, 1>>, count |-> 0 ],
    detectionRegistry |-> {} ]

\* lines 563-568
addSourceUrl(frameFeature, sourceUrl) ==
  IF sourceUrl # "" /\ ~InSeq(sourceUrl, frameFeature.sourceUrls)
  THEN [ frameFeature EXCEPT !.sourceUrls = Append(@, sourceUrl) ]
  ELSE frameFeature

\* mutant: no key is ever found in the registry
isRegistered_Never(registry, detectionKey) == FALSE

\* line 577: detectionKey && registry[detectionKey]
isRegistered(registry, detectionKey) ==
  detectionKey # NoKey /\ detectionKey \in registry

\* lines 571-612: one summary of detectionSummaries.forEach
addSummary(frameFeature, summary) ==
  LET detectionKey ==
        buildDetectionDedupKey(summary,
          Coalesce(frameFeature.properties.frame_id,
                   frameFeature.properties.frame_number))
      coords == summary.coordinates
      counted == /\ Len(coords) = 2
                 /\ IsFiniteNumber(coords[1])
                 /\ IsFiniteNumber(coords[2])
      accumulator == frameFeature.coordinateAccumulator
      gpsTimestamp == summary.gps_timestamp
      globalTimestamp == frameFeature.properties.globalTimestamp
  IN IF isRegistered(frameFeature.detectionRegistry, detectionKey)
     THEN frameFeature
     ELSE [ frameFeature EXCEPT
              !.detectionRegistry =
                 IF detectionKey # NoKey THEN @ \cup {detectionKey} ELSE @,
              !.properties.all_detections_in_frame = Append(@, summary),
              !.properties.detection_count_in_frame =
                 Len(frameFeature.properties.all_detections_in_frame) + 1,
              !.coordinateAccumulator =
                 IF counted
                 THEN [ lngSum |-> FracAdd(accumulator.lngSum, coords[1]),
                        latSum |-> FracAdd(accumulator.latSum, coords[2]),
                        count |-> accumulator.count + 1 ]
                 ELSE accumulator,
              !.properties.globalTimestamp =
                 IF /\ gpsTimestamp # Undefined
                    /\ \/ globalTimestamp = Undefined
                       \/ globalTimestamp = 0
                       \/ gpsTimestamp < globalTimestamp
                 THEN gpsTimestamp
                 ELSE globalTimestamp ]

\* lines 570-613
RECURSIVE addSummaries(_, _)
addSummaries(frameFeature, detectionSummaries) ==
  IF detectionSummaries = <<>> THEN frameFeature
  ELSE addSummaries(addSummary(frameFeature, detectionSummaries[1]),
                    Tail(detectionSummaries))

\* position of the key in framesMap, 0 when absent
frameIndex(framesMap, key) ==
  IF \E i \in 1..Len(framesMap) : framesMap[i].key = key
  THEN CHOOSE i \in 1..Len(framesMap) : framesMap[i].key = key
  ELSE 0

\* lines 542-613: one feature that has a frame key
mergeFeature(framesMap, feature, frameInfo) ==
  LET at == frameIndex(framesMap, frameInfo.key)
      frameFeature ==
        IF at = 0 THEN newFrameFeature(feature, frameInfo)
        ELSE addSourceUrl(framesMap[at], feature.properties.sourceUrl)
      merged == addSummaries(frameFeature, gatherDetectionsForFeature(feature))
  IN IF at = 0 THEN Append(framesMap, merged)
     ELSE [ framesMap EXCEPT ![at] = merged ]

\* lines 536-614: framesMap after featureEntries.forEach
RECURSIVE mergeFeatures(_, _)
mergeFeatures(framesMap, featureList) ==
  IF featureList = <<>> THEN framesMap
  ELSE mergeFeatures(
         IF deriveFrameIdentifier(featureList[1].properties).key = "" THEN framesMap
         ELSE mergeFeature(framesMap, featureList[1],
                           deriveFrameIdentifier(featureList[1].properties)),
         Tail(featureList))

\* lines 537-540: orphanFeatures
orphanFeatures(featureList) ==
  SelectSeq(featureList, LAMBDA f : deriveFrameIdentifier(f.properties).key = "")

\* lines 616-635: the feature made of one entry of framesMap
finishFrame(frameFeature) ==
  LET accumulator == frameFeature.coordinateAccumulator
  IN [ geometry |->
         IF accumulator.count > 0
         THEN [ type |-> "Point",
                coordinates |->
                  << <<accumulator.lngSum[1], accumulator.lngSum[2] * accumulator.count>>,
                     <<accumulator.latSum[1], accumulator.latSum[2] * accumulator.count>> >> ]
         ELSE frameFeature.geometry,
       properties |->
         [ frameFeature.properties EXCEPT
             !.sourceUrl = IF frameFeature.sourceUrls # <<>>
                           THEN frameFeature.sourceUrls[1]
                           ELSE @ ] ]

\* Number.MAX_SAFE_INTEGER, 2^53 - 1: the largest integer of the model stands
\* for it, every frame number being smaller
MAX_SAFE_INTEGER == 2147483647

\* Number(frame_number ?? frame_id ?? Number.MAX_SAFE_INTEGER), NaN included
sortFrame(f) ==
  LET v == Coalesce(f.properties.frame_number, f.properties.frame_id)
  IN CASE v.kind = "number" -> v.num
       [] v.kind = "string" -> JsNumber(v.text)
       [] OTHER -> MAX_SAFE_INTEGER

\* lines 637-644: the comparator, as its sign
compareFrames(a, b) ==
  IF IsNaN(sortFrame(a)) /\ IsNaN(sortFrame(b)) THEN 0
  ELSE IF IsNaN(sortFrame(a)) THEN 1
  ELSE IF IsNaN(sortFrame(b)) THEN 0 - 1
  ELSE sortFrame(a) - sortFrame(b)

\* Array.prototype.sort is stable: x goes behind what does not come after it
RECURSIVE insertFrame(_, _)
insertFrame(sorted, x) ==
  IF sorted = <<>> THEN <<x>>
  ELSE IF compareFrames(sorted[Len(sorted)], x) <= 0 THEN Append(sorted, x)
  ELSE Append(insertFrame(SubSeq(sorted, 1, Len(sorted) - 1), x),
              sorted[Len(sorted)])

RECURSIVE sortFrames(_)
sortFrames(s) ==
  IF s = <<>> THEN <<>>
  ELSE insertFrame(sortFrames(SubSeq(s, 1, Len(s) - 1)), s[Len(s)])

\* lines 513-647
aggregateDetectionsByFrame(featureList) ==
  IF featureList = <<>> \/ ~needsAggregation(featureList) THEN featureList
  ELSE LET framesMap == mergeFeatures(<<>>, featureList)
       IN sortFrames([ i \in 1..Len(framesMap) |-> finishFrame(framesMap[i]) ])
          \o orphanFeatures(featureList)

---------------------------------------------------------------------------
(* The featureList of a load: handleLoadMap normalises the featureList of every  *)
(* fetched GeoJSON (lines 1850-1858) and aggregates them by frame (line    *)
(* 1899).  sourceUrl and globalTimestamp are the ones lines 1852-1854 set. *)

\* the longest all_detections_in_frame of a fetched feature
MaxDetections == 3

\* the most features of a load that share frames
MaxFeatures == 3

Point(lng, lat) ==
  [ type |-> "Point", coordinates |-> << <<lng, 1>>, <<lat, 1>> >> ]

\* a Point whose longitude is NaN
NaNPoint == [ type |-> "Point", coordinates |-> << <<0, 0>>, <<0, 1>> >> ]

\* geometry: null
NoGeometry == [ type |-> "null", coordinates |-> <<>> ]

Feature(frame_id, frameId, geometry, globalTimestamp, sourceUrl, defect_id, detections) ==
  [ geometry |-> geometry,
    properties |->
      [ frame_id |-> frame_id,
        frame_number |-> NoValue,
        frameId |-> frameId,
        defect_id |-> defect_id,
        defect_type |-> "",
        class_name |-> "crack",
        track_id |-> 1,
        confidence |-> 90000,
        bbox |-> <<>>,
        gps_timestamp |-> Undefined,
        globalTimestamp |-> globalTimestamp,
        sourceUrl |-> sourceUrl,
        detections_array |-> TRUE,
        all_detections_in_frame |-> detections,
        detection_count_in_frame |-> Undefined ] ]

\* a feature with flat detection properties and no all_detections_in_frame
Flat(feature) == [ feature EXCEPT !.properties.detections_array = FALSE ]

Stated(feature, count) ==
  [ feature EXCEPT !.properties.detection_count_in_frame = count ]

\* detections of frame 1: two of defect 1, one that has an id and no
\* defect_id, three that differ in the digits toFixed drops or keeps, one
\* without a frame of its own, and a null entry
DetectionChoices ==
  { Detection(1, Undefined, Num(1), 1, "crack", 90000, <<1004, 2001>>),
    Detection(1, Undefined, Num(1), 2, "pothole", 50000, <<>>),
    Detection(Undefined, 1, Num(1), 3, "crack", 90000, <<1004, 2001>>),
    Detection(Undefined, Undefined, Num(1), 1, "crack", 12341, <<1004, 2001>>),
    Detection(Undefined, Undefined, Num(1), 1, "crack", 12344, <<1001, 2004>>),
    Detection(Undefined, Undefined, Num(1), 1, "crack", 12346, <<1001, 2004>>),
    Detection(Undefined, Undefined, NoValue, 1, "crack", 12341, <<1004, 2001>>),
    NullDetection }

DetectionLists(maxDetections) ==
  UNION { [1..n -> DetectionChoices] : n \in 0..maxDetections }

\* frame_id and detection_count_in_frame as the GeoJSON states them
StatedFrames ==
  { <<NoValue, Undefined>>, <<NoValue, 3>>, <<Str("01"), 0>>, <<Str("01"), 3>> }

\* one feature with any list of detections
SingleFeatures(maxDetections) ==
  UNION {
    { Stated(f, stated[2]) :
        f \in { Feature(stated[1], NoValue, Point(0, 0), 5, "u1", 3, detections) :
                  detections \in DetectionLists(maxDetections) }
              \cup { Flat(Feature(stated[1], NoValue, Point(0, 0), 5, "u1", 3, <<>>)) } } :
    stated \in StatedFrames }

\* features of frames 1 and 2, under several spellings of the frame, and one
\* of no frame
FrameFeatures ==
  LET d1 == Detection(1, Undefined, Num(1), 1, "crack", 90000, <<1004, 2001>>)
      d2 == Detection(2, Undefined, NoValue, 1, "crack", 90000, <<1004, 2001>>)
      d3 == Detection(Undefined, Undefined, NoValue, 1, "crack", 12341, <<1004, 2001>>)
      d4 == Detection(Undefined, Undefined, NoValue, 1, "crack", 12344, <<1001, 2004>>)
      d5 == Detection(Undefined, Undefined, NoValue, 2, "pothole", 12346, <<>>)
  IN { Feature(Num(1), NoValue, Point(0, 0), 5, "u1", Undefined, <<d1>>),
       Feature(Num(1), NoValue, Point(6, 6), 3, "u2", Undefined, <<d1>>),
       Feature(Num(1), NoValue, Point(12, 0), 0, "u1", Undefined, <<d2, d3>>),
       [ Flat(Feature(Num(1), NoValue, NaNPoint, 7, "u2", 4, <<>>))
           EXCEPT !.properties.gps_timestamp = 2 ],
       Feature(Num(2), NoValue, NoGeometry, 3, "u1", Undefined, <<d3, d4>>),
       Feature(Str("2"), NoValue, Point(6, 0), 0, "u2", Undefined, <<d2>>),
       Feature(NoValue, NoValue, Point(0, 0), 5, "u1", Undefined, <<d1>>),
       Feature(NoValue, Str("1"), Point(0, 6), 5, "u2", Undefined, <<d5>>),
       Feature(NoValue, Str("01"), Point(6, 6), 3, "u2", Undefined, <<d1>>),
       Feature(Num(1), NoValue, Point(6, 0), 5, "u1", 1, <<NullDetection>>),
       Feature(Str("x"), NoValue, Point(0, 0), 3, "u1", Undefined, <<d5>>) }

\* fetchedGeojson.features of all sources, in the order they were merged
FetchedLoads(maxDetections, maxFeatures) ==
  { <<f>> : f \in SingleFeatures(maxDetections) }
    \cup UNION { [1..n -> FrameFeatures] : n \in 2..maxFeatures }

TargetModes == {"data", "metadata"}

FrameInit ==
  /\ fetchedFeatures \in FetchedLoads(MaxDetections, MaxFeatures)
  /\ targetMode \in TargetModes
  /\ allFeatures = <<>>
  /\ aggregatedFrameFeatures = <<>>
  /\ reaggregatedFeatures = <<>>
  /\ framePc = "normalize"

FrameIdle ==
  /\ fetchedFeatures = <<>>
  /\ targetMode = ""
  /\ allFeatures = <<>>
  /\ aggregatedFrameFeatures = <<>>
  /\ reaggregatedFeatures = <<>>
  /\ framePc = "idle"

\* lines 1850-1858: every fetched feature, normalised, joins allFeatures
NormalizeFeatures ==
  /\ framePc = "normalize"
  /\ allFeatures' = [ i \in 1..Len(fetchedFeatures) |->
                        normalizeFeatureProperties(fetchedFeatures[i], targetMode) ]
  /\ framePc' = "aggregate"
  /\ UNCHANGED <<fetchedFeatures, targetMode, aggregatedFrameFeatures,
                 reaggregatedFeatures, notFrame>>

\* line 1899
AggregateDetectionsByFrame ==
  /\ framePc = "aggregate"
  /\ aggregatedFrameFeatures' = aggregateDetectionsByFrame(allFeatures)
  /\ framePc' = "loaded"
  /\ UNCHANGED <<fetchedFeatures, targetMode, allFeatures,
                 reaggregatedFeatures, notFrame>>

\* aggregateDetectionsByFrame called on its own result
AggregateAgain ==
  /\ framePc = "loaded"
  /\ reaggregatedFeatures' = aggregateDetectionsByFrame(aggregatedFrameFeatures)
  /\ framePc' = "again"
  /\ UNCHANGED <<fetchedFeatures, targetMode, allFeatures,
                 aggregatedFrameFeatures, notFrame>>

FrameNext == NormalizeFeatures \/ AggregateDetectionsByFrame \/ AggregateAgain

---------------------------------------------------------------------------
---------------------------------------------------------------------------
(* applyMultipleDeductCorrection as a function of its argument, and the    *)
(* correction of a list and of the same list with one more value.          *)

\* lines 569-604: the CDVs recorded by the while loop
RECURSIVE correctionLoop(_, _, _)
correctionLoop(working, results, iter) ==
  IF iter >= maxIterations THEN results
  ELSE LET q == CountSignificant(working)
           cdv == getCDVFromCurve(SumSeq(working), q)
           i == LastSignificant(working)
       IN IF q <= 1 \/ i = 0 THEN Append(results, cdv)
          ELSE correctionLoop([working EXCEPT ![i] = 2 * Unit],
                              Append(results, cdv), iter + 1)

\* lines 533-611
applyMultipleDeductCorrection(values) ==
  IF Len(values) = 0 THEN 0
  ELSE IF CountSignificant(values) <= 1
  THEN JsMax(0, JsMin(100 * Unit, SumSeq(values)))
  ELSE JsMax(0, JsMin(100 * Unit,
         MaxSeq(correctionLoop(TruncateToM(SortDesc(values)), <<>>, 0))))

\* the values of the lists that get one more value, in Unit: 0, 1.5, 3, 50,
\* 89, 89.5, 100 and 200
AppendValues ==
  { 0, (3 * Unit) \div 2, 3 * Unit, 50 * Unit, 89 * Unit, (179 * Unit) \div 2,
    100 * Unit, 200 * Unit }

AppendLists(maxLen) == UNION { [1..n -> AppendValues] : n \in 0..maxLen }

\* no correction has been asked for yet
NotCorrected == 0 - 2

AppendInit ==
  /\ shorterList \in AppendLists(MaxLen)
  /\ appendedValue \in AppendValues
  /\ shorterCDV = NotCorrected
  /\ longerCDV = NotCorrected
  /\ appendPc = "shorter"

\* no list is being corrected
AppendIdle ==
  /\ shorterList = <<>>
  /\ appendedValue = 0
  /\ shorterCDV = NotCorrected
  /\ longerCDV = NotCorrected
  /\ appendPc = "idle"

\* applyMultipleDeductCorrection(shorterList)
CorrectShorter ==
  /\ appendPc = "shorter"
  /\ shorterCDV' = applyMultipleDeductCorrection(shorterList)
  /\ appendPc' = "longer"
  /\ UNCHANGED <<shorterList, appendedValue, longerCDV, notAppend>>

\* applyMultipleDeductCorrection([...shorterList, appendedValue])
CorrectLonger ==
  /\ appendPc = "longer"
  /\ longerCDV' = applyMultipleDeductCorrection(Append(shorterList, appendedValue))
  /\ appendPc' = "done"
  /\ UNCHANGED <<shorterList, appendedValue, shorterCDV, notAppend>>

AppendNext == CorrectShorter \/ CorrectLonger

---------------------------------------------------------------------------
(* processedPathSegments (components/MapComponent.tsx): the continuous     *)
(* paths of the point features.                                            *)
(*                                                                         *)
(* A globalTimestamp is a number of half milliseconds, so that a           *)
(* timestamp with a fraction can be told from the whole number             *)
(* new Date(t).getTime() makes of it; NoTimestamp is a missing one.  The   *)
(* coordinates of a feature are its position in the list of the features.  *)

TIMESTAMP_GAP_THRESHOLD_MS == 10 * 1000

\* half milliseconds in a millisecond
PerMs == 2

NoTimestamp == 0 - 1

\* new Date(t).getTime() for a t >= 0: the whole milliseconds of t
getTime(globalTimestamp) == globalTimestamp \div PerMs

\* f.geometry && f.geometry.type === 'Point' && f.properties?.globalTimestamp:
\* a missing timestamp and the timestamp 0 are both falsy
isPathPoint(f) ==
  f.point /\ f.globalTimestamp # NoTimestamp /\ f.globalTimestamp # 0

\* Array.prototype.sort with the comparator getTime(a) - getTime(b); the
\* sort is stable
RECURSIVE insertByTime(_, _)
insertByTime(sorted, f) ==
  IF sorted = <<>> THEN <<f>>
  ELSE IF getTime(f.globalTimestamp)
            - getTime(sorted[Len(sorted)].globalTimestamp) >= 0
  THEN Append(sorted, f)
  ELSE Append(insertByTime(SubSeq(sorted, 1, Len(sorted) - 1), f),
              sorted[Len(sorted)])

RECURSIVE sortByTime(_)
sortByTime(s) ==
  IF s = <<>> THEN <<>>
  ELSE insertByTime(sortByTime(SubSeq(s, 1, Len(s) - 1)), s[Len(s)])

\* if (currentPathCoords.length >= 2) continuousPaths.push(...)
pushPath(paths, coords) == IF Len(coords) >= 2 THEN Append(paths, coords) ELSE paths

\* the features of a geojson
MaxPoints == 4

\* 0, 1, 1.5, 5000, 10001, 10001.5 and 25000 ms, and no timestamp
Timestamps ==
  { NoTimestamp, 0, 1 * PerMs, 3, 5000 * PerMs, 10001 * PerMs, 20003,
    25000 * PerMs }

\* points with any of the timestamps, and a line with a timestamp
FeatureKinds ==
  { [ point |-> TRUE, globalTimestamp |-> t ] : t \in Timestamps }
    \cup { [ point |-> FALSE, globalTimestamp |-> 5000 * PerMs ] }

GeojsonFeatures(maxPoints) ==
  UNION { { [ i \in 1..n |-> [ coordinates |-> i, point |-> kinds[i].point,
                               globalTimestamp |-> kinds[i].globalTimestamp ] ] :
              kinds \in [1..n -> FeatureKinds] } :
          n \in 0..maxPoints }

PathInit ==
  /\ geojsonFeatures \in GeojsonFeatures(MaxPoints)
  /\ sortedFeatures = <<>>
  /\ continuousPaths = <<>>
  /\ currentPathCoords = <<>>
  /\ prevTimestamp = NoTimestamp
  /\ pointIdx = 0
  /\ pathPc = "sort"

PathIdle ==
  /\ geojsonFeatures = <<>>
  /\ sortedFeatures = <<>>
  /\ continuousPaths = <<>>
  /\ currentPathCoords = <<>>
  /\ prevTimestamp = NoTimestamp
  /\ pointIdx = 0
  /\ pathPc = "idle"

\* lines 412-427: filter and sort; fewer than 2 features, before or after
\* the filter, give no segments
SortFeatures ==
  /\ pathPc = "sort"
  /\ LET kept == sortByTime(SelectSeq(geojsonFeatures, isPathPoint))
     IN IF Len(geojsonFeatures) < 2 \/ Len(kept) < 2
        THEN /\ pathPc' = "none"
             /\ UNCHANGED <<sortedFeatures, pointIdx>>
        ELSE /\ sortedFeatures' = kept
             /\ pointIdx' = 1
             /\ pathPc' = "paths"
  /\ UNCHANGED <<geojsonFeatures, continuousPaths, currentPathCoords,
                 prevTimestamp, notPath>>

\* lines 431-450: one pass of sortedFeatures.forEach
AddPoint ==
  /\ pathPc = "paths"
  /\ pointIdx <= Len(sortedFeatures)
  /\ LET feature == sortedFeatures[pointIdx]
         currentCoords == feature.coordinates
         currentTimestamp == getTime(feature.globalTimestamp)
         timeDiff == currentTimestamp - prevTimestamp
     IN /\ IF pointIdx = 1 \/ timeDiff <= TIMESTAMP_GAP_THRESHOLD_MS
           THEN /\ currentPathCoords' = Append(currentPathCoords, currentCoords)
                /\ UNCHANGED continuousPaths
           ELSE /\ continuousPaths' = pushPath(continuousPaths, currentPathCoords)
                /\ currentPathCoords' = <<currentCoords>>
        /\ prevTimestamp' = currentTimestamp
  /\ pointIdx' = pointIdx + 1
  /\ UNCHANGED <<geojsonFeatures, sortedFeatures, pathPc, notPath>>

\* lines 452-455: the last path
FinishPaths ==
  /\ pathPc = "paths"
  /\ pointIdx > Len(sortedFeatures)
  /\ continuousPaths' = pushPath(continuousPaths, currentPathCoords)
  /\ pathPc' = "done"
  /\ UNCHANGED <<geojsonFeatures, sortedFeatures, currentPathCoords,
                 prevTimestamp, pointIdx, notPath>>

PathNext == SortFeatures \/ AddPoint \/ FinishPaths

---------------------------------------------------------------------------
(* handleLoadMap and the prefix reset effect of MapPageContent             *)
(* (src/src/app/map/page.tsx, lines 1557-1563 and 1811-1923)               *)

\* the target prefixes the search parameters can select
Prefixes == { "customer_outputs/a/", "customer_outputs/b/" }

\* the most GeoJSON sources one listing returns
MaxSources == 3

\* the numbers of features one GeoJSON source holds
FeatureCounts == { 0, 2 }

\* `${S3_HTTP_BASE_URL}/${key}`: the key lies under the listed prefix;
\* listGeojsonKeysAtPrefix returns the parent_tracks keys alone when the
\* prefix has any
SourceUrl(prefix, key, parentTracks) ==
  [ prefix |-> prefix, key |-> key, parent_tracks |-> parentTracks ]

NoGeojson == [ published |-> FALSE, features |-> <<>>, failedSources |-> <<>> ]

PendingFetch == [ state |-> "pending", count |-> 0 ]

\* lines 1849-1856: the features of one fetched source, normalised
normalizedFeatures(geojsonUrl, index, count, geometry) ==
  [ n \in 1..count |->
      [ sourceUrl |-> geojsonUrl, sourceIndex |-> index, feature |-> n,
        is_parent_track |-> geojsonUrl.parent_tracks, geometry |-> geometry ] ]

\* lines 649-655
isParentTrackDataset(loaded) ==
  \E n \in 1..Len(loaded) :
    loaded[n].is_parent_track \/ loaded[n].sourceUrl.parent_tracks

drawsGeometry(f) == f.geometry

\* lines 1877-1878: the line and defect features of the tracks that have a
\* geometry
combinedFeatures(loaded) == SelectSeq(loaded, drawsGeometry)

LoadInit ==
  /\ targetPrefix \in Prefixes
  /\ geojson = NoGeojson
  /\ loading = FALSE
  /\ error = "none"
  /\ successMessage = "none"
  /\ loadTarget = "none"
  /\ geojsonUrls = <<>>
  /\ fetchPromises = <<>>
  /\ mergedFeatures = <<>>
  /\ failedUrls = <<>>
  /\ coreInput = <<>>
  /\ loadPc = "ready"

LoadIdle ==
  /\ targetPrefix = "none"
  /\ geojson = NoGeojson
  /\ loading = FALSE
  /\ error = "none"
  /\ successMessage = "none"
  /\ loadTarget = "none"
  /\ geojsonUrls = <<>>
  /\ fetchPromises = <<>>
  /\ mergedFeatures = <<>>
  /\ failedUrls = <<>>
  /\ coreInput = <<>>
  /\ loadPc = "idle"

\* lines 1557-1563: the search parameters select another prefix and the
\* effect resets the published state; a load in flight goes on
ChangePrefix ==
  /\ loadPc # "idle"
  /\ \E prefix \in Prefixes \ { targetPrefix } : targetPrefix' = prefix
  /\ geojson' = NoGeojson
  /\ successMessage' = "none"
  /\ error' = "none"
  /\ UNCHANGED <<loading, loadTarget, geojsonUrls, fetchPromises, mergedFeatures,
                 failedUrls, coreInput, loadPc, notLoad>>

\* lines 1811-1822: the button (disabled while loading) starts a load for
\* the targetConfig of the render it was clicked in
ClickLoad ==
  /\ loadPc = "ready"
  /\ ~loading
  /\ loading' = TRUE
  /\ error' = "none"
  /\ successMessage' = "none"
  /\ geojson' = NoGeojson
  /\ loadTarget' = targetPrefix
  /\ geojsonUrls' = <<>>
  /\ fetchPromises' = <<>>
  /\ mergedFeatures' = <<>>
  /\ failedUrls' = <<>>
  /\ coreInput' = <<>>
  /\ loadPc' = "listing"
  /\ UNCHANGED <<targetPrefix, notLoad>>

\* lines 1822, 1917-1922: listGeojsonUrlsForTarget rejects
ListingFails ==
  /\ loadPc = "listing"
  /\ error' = "unexpected"
  /\ loading' = FALSE
  /\ loadPc' = "ready"
  /\ UNCHANGED <<targetPrefix, geojson, successMessage, loadTarget, geojsonUrls,
                 fetchPromises, mergedFeatures, failedUrls, coreInput, notLoad>>

\* lines 1824-1831: nothing is listed
ListingEmpty ==
  /\ loadPc = "listing"
  /\ error' = "empty"
  /\ loading' = FALSE
  /\ loadPc' = "ready"
  /\ UNCHANGED <<targetPrefix, geojson, successMessage, loadTarget, geojsonUrls,
                 fetchPromises, mergedFeatures, failedUrls, coreInput, notLoad>>

\* lines 1822, 1833-1838: the listing arrives and every source is fetched
ListingArrives ==
  /\ loadPc = "listing"
  /\ \E count \in 1..MaxSources, parentTracks \in BOOLEAN :
       /\ geojsonUrls' = [ k \in 1..count |-> SourceUrl(loadTarget, k, parentTracks) ]
       /\ fetchPromises' = [ k \in 1..count |-> PendingFetch ]
  /\ loadPc' = "fetching"
  /\ UNCHANGED <<targetPrefix, geojson, loading, error, successMessage,
                 loadTarget, mergedFeatures, failedUrls, coreInput, notLoad>>

\* lines 1839-1858: one source answers with a feature array
FetchSucceeds ==
  /\ loadPc = "fetching"
  /\ \E index \in 1..Len(geojsonUrls), count \in FeatureCounts, geometry \in BOOLEAN :
       /\ fetchPromises[index].state = "pending"
       /\ geometry \/ geojsonUrls[index].parent_tracks
       /\ mergedFeatures' = mergedFeatures \o
            normalizedFeatures(geojsonUrls[index], index, count, geometry)
       /\ fetchPromises' =
            [ fetchPromises EXCEPT ![index] = [ state |-> "ok", count |-> count ] ]
  /\ UNCHANGED <<targetPrefix, geojson, loading, error, successMessage,
                 loadTarget, geojsonUrls, failedUrls, coreInput, loadPc, notLoad>>

\* lines 1840-1848, 1860-1863: the fetch rejects, the status is not ok, the
\* body is no JSON or holds no feature array
FetchFails ==
  /\ loadPc = "fetching"
  /\ \E index \in 1..Len(geojsonUrls) :
       /\ fetchPromises[index].state = "pending"
       /\ failedUrls' = Append(failedUrls, geojsonUrls[index])
       /\ fetchPromises' =
            [ fetchPromises EXCEPT ![index] = [ state |-> "failed", count |-> 0 ] ]
  /\ UNCHANGED <<targetPrefix, geojson, loading, error, successMessage,
                 loadTarget, geojsonUrls, mergedFeatures, coreInput, loadPc, notLoad>>

\* lines 1866-1922: every fetch has settled; the merged features go to the
\* core and its result is published
FinishLoad ==
  /\ loadPc = "fetching"
  /\ \A index \in 1..Len(geojsonUrls) : fetchPromises[index].state # "pending"
  /\ coreInput' = mergedFeatures
  /\ LET produced == IF isParentTrackDataset(mergedFeatures)
                     THEN combinedFeatures(mergedFeatures)
                     ELSE mergedFeatures
     IN IF Len(produced) > 0
        THEN /\ geojson' = [ published |-> TRUE, features |-> produced,
                             failedSources |-> failedUrls ]
             /\ successMessage' = "Data loaded"
             /\ UNCHANGED error
        ELSE /\ error' = IF isParentTrackDataset(mergedFeatures)
                         THEN "no tracks" ELSE "no defects"
             /\ UNCHANGED <<geojson, successMessage>>
  /\ loading' = FALSE
  /\ loadPc' = "ready"
  /\ UNCHANGED <<targetPrefix, loadTarget, geojsonUrls, fetchPromises,
                 mergedFeatures, failedUrls, notLoad>>

LoadNext ==
  \/ ChangePrefix
  \/ ClickLoad
  \/ ListingFails
  \/ ListingEmpty
  \/ ListingArrives
  \/ FetchSucceeds
  \/ FetchFails
  \/ FinishLoad

CDVStart == CDVInit /\ DVIdle /\ PCIIdle /\ BandIdle /\ SegIdle /\ FrameIdle /\ AppendIdle /\ PathIdle /\ LoadIdle

DVStart == DVInit /\ CDVIdle /\ PCIIdle /\ BandIdle /\ SegIdle /\ FrameIdle /\ AppendIdle /\ PathIdle /\ LoadIdle

PCIStart == PCIInit /\ CDVIdle /\ DVIdle /\ BandIdle /\ SegIdle /\ FrameIdle /\ AppendIdle /\ PathIdle /\ LoadIdle

BandStart == BandInit /\ CDVIdle /\ DVIdle /\ PCIIdle /\ SegIdle /\ FrameIdle /\ AppendIdle /\ PathIdle /\ LoadIdle

SegStart == SegInit /\ CDVIdle /\ DVIdle /\ PCIIdle /\ BandIdle /\ FrameIdle /\ AppendIdle /\ PathIdle /\ LoadIdle

FrameStart == FrameInit /\ CDVIdle /\ DVIdle /\ PCIIdle /\ BandIdle /\ SegIdle /\ AppendIdle /\ PathIdle /\ LoadIdle

AppendStart == AppendInit /\ CDVIdle /\ DVIdle /\ PCIIdle /\ BandIdle /\ SegIdle /\ FrameIdle /\ PathIdle /\ LoadIdle

PathStart == PathInit /\ CDVIdle /\ DVIdle /\ PCIIdle /\ BandIdle /\ SegIdle /\ FrameIdle /\ AppendIdle /\ LoadIdle

LoadStart == LoadInit /\ CDVIdle /\ DVIdle /\ PCIIdle /\ BandIdle /\ SegIdle /\ FrameIdle /\ AppendIdle /\ PathIdle

SpecCDV == CDVStart /\ [][CDVNext]_vars

SpecDeduct == DVStart /\ [][DVNext]_vars

SpecPCI == PCIStart /\ [][PCINext]_vars

SpecBands == BandStart /\ [][BandNext]_vars

SpecSeg == SegStart /\ [][SegNext]_vars

SpecFrames == FrameStart /\ [][FrameNext]_vars

SpecAppend == AppendStart /\ [][AppendNext]_vars

SpecPaths == PathStart /\ [][PathNext]_vars

SpecLoad == LoadStart /\ [][LoadNext]_vars

Init == CDVStart \/ DVStart \/ PCIStart \/ BandStart \/ SegStart \/ FrameStart \/ AppendStart \/ PathStart \/ LoadStart

Next == CDVNext \/ DVNext \/ PCINext \/ BandNext \/ SegNext \/ FrameNext \/ AppendNext \/ PathNext \/ LoadNext

Spec == Init /\ [][Next]_vars

---------------------------------------------------------------------------
(* Properties of applyMultipleDeductCorrection, checked under SpecCDV.     *)
(* The right-hand sides below are written over plain reals (no NaN): they  *)
(* state what the specification says, not what the code computes.          *)

RealMin(a, b) == IF a < b THEN a ELSE b

RealMax(a, b) == IF a > b THEN a ELSE b

RECURSIVE RealSum(_)
RealSum(s) == IF s = <<>> THEN 0 ELSE s[1] + RealSum(Tail(s))

NonNegative(s) == \A i \in 1..Len(s) : s[i] >= 0

\* how many values of the list exceed 2.0
NumAbove2(s) == Cardinality({ i \in 1..Len(s) : s[i] > 2 * Unit })

Returned == cdvPc = "done"

\* C1: for every list of non-negative deduct values (values above 100
\* included) the returned value is a number in [0,100].
C1_ResultInRange ==
  (Returned /\ NonNegative(deductValues))
    => (~IsNaN(maxCDV) /\ maxCDV >= 0 /\ maxCDV <= 100 * Unit)

\* the specification's truncation: the floor(m) largest values plus the next
\* value times the fractional part of m
ClaimedTruncate(sorted) ==
  LET m == RealMin(10 * Unit, Unit + (9 * (100 * Unit - sorted[1])) \div 98)
      k == m \div Unit
      f == m - k * Unit
      largest == SubSeq(sorted, 1, RealMin(RealMax(k, 0), Len(sorted)))
  IN IF f > 0 /\ k + 1 \in 1..Len(sorted)
     THEN Append(largest, Times(sorted[k + 1], f))
     ELSE largest

\* the specification's reduction step: the smallest value above 2.0 becomes 2.0
ClaimedReduce(w) ==
  LET above == { i \in 1..Len(w) : w[i] > 2 * Unit }
      i == CHOOSE a \in above : \A b \in above : w[a] <= w[b]
  IN [w EXCEPT ![i] = 2 * Unit]

\* the CDVs the specification records, iteration after iteration
RECURSIVE ClaimedCDVs(_)
ClaimedCDVs(w) ==
  LET q == NumAbove2(w)
      cdv == getCDVFromCurve(RealSum(w), q)
  IN IF q <= 1 THEN <<cdv>> ELSE <<cdv>> \o ClaimedCDVs(ClaimedReduce(w))

RECURSIVE RealMaxSeq(_)
RealMaxSeq(s) == IF Len(s) = 1 THEN s[1] ELSE RealMax(s[1], RealMaxSeq(Tail(s)))

ClaimedMaxCDV(input) ==
  RealMax(0, RealMin(100 * Unit,
                     RealMaxSeq(ClaimedCDVs(ClaimedTruncate(SortDesc(input))))))

\* C2: with two or more values above 2.0 the result is the largest CDV
\* recorded over all reduction iterations of the truncated, descending list,
\* clamped to [0,100].
C2_MaxOverIterations ==
  (Returned /\ NumAbove2(deductValues) >= 2)
    => maxCDV = ClaimedMaxCDV(deductValues)

C4_AtLeastEachInput ==
  (Returned /\ NonNegative(deductValues))
    => \A i \in 1..Len(deductValues) :
         /\ ~IsNaN(maxCDV)
         /\ maxCDV >= RealMin(100 * Unit, deductValues[i])

---------------------------------------------------------------------------
(* Properties of getDeductValue, checked under SpecDeduct.                 *)

Clamp100(x) == RealMax(0, RealMin(100 * Unit, x))

\* y lies on the segment joining two neighbouring breakpoints of table at x
OnPiecewiseLine(table, x, y) ==
  \E i \in 1..(Len(table) - 1) :
    /\ table[i][1] * Unit <= x /\ x <= table[i + 1][1] * Unit
    /\ (y - table[i][2] * Unit) * (table[i + 1][1] - table[i][1])
         = (x - table[i][1] * Unit) * (table[i + 1][2] - table[i][2])

\* C5: for the four defect types, getDeductValue is the piecewise-linear
\* interpolation of the table's breakpoints at the density clamped to
\* [0,100]: exact at every breakpoint (alligator/High at 100 is 98), never
\* decreasing in the density, and within [0,100].
C5_DeductValueInterpolates ==
  (dvPc = "done" /\ defectType \in DefectTypes)
    => LET table == DEDUCT_TABLES[defectType][severity]
           x == Clamp100(density)
       IN /\ OnPiecewiseLine(table, x, deductValue)
          /\ \A i \in 1..Len(table) :
               x = table[i][1] * Unit => deductValue = table[i][2] * Unit
          /\ (defectType = "alligator" /\ severity = "High"
                /\ density = 100 * Unit) => deductValue = 98 * Unit
          /\ \A d \in Densities :
               d <= density
                 => getDeductValue(defectType, severity, d) <= deductValue
          /\ deductValue >= 0 /\ deductValue <= 100 * Unit

\* alligator/High was looked up at 2.5, between the breakpoints 1 and 5, and
\* gave 12.5
C5_Witness ==
  /\ dvPc = "done"
  /\ defectType = "alligator"
  /\ severity = "High"
  /\ density = (5 * Unit) \div 2
  /\ deductValue = (25 * Unit) \div 2

---------------------------------------------------------------------------
(* Properties of calculatePCI, checked under SpecPCI.                      *)

\* the categories of densityKeys whose density is positive
PositiveEntries(px) ==
  { i \in 1..Len(densityKeys) : DensityOf(px, densityKeys[i][2]) > 0 }

\* min(cap, a * density^b) for entry i, in Micro
ClaimedDeduct(px, i) ==
  LET c == curves[densityKeys[i][1]]
      raw == c.a * (PowTable[<<DensityOf(px, densityKeys[i][2]), c.b>>] \div 10)
             + (c.a * (PowTable[<<DensityOf(px, densityKeys[i][2]), c.b>>] % 10)) \div 10
  IN RealMin(c.max * Micro, raw)

\* the position of entry i once the deducts are sorted highest first
ClaimedRank(px, i) ==
  1 + Cardinality({ j \in PositiveEntries(px) :
                      \/ ClaimedDeduct(px, j) > ClaimedDeduct(px, i)
                      \/ ClaimedDeduct(px, j) = ClaimedDeduct(px, i) /\ j < i })

\* 1.0, 0.7, 0.4, 0.1 and 0.1 for every later position, in tenths
ClaimedWeight(rank) ==
  CASE rank = 1 -> 10 [] rank = 2 -> 7 [] rank = 3 -> 4 [] OTHER -> 1

RECURSIVE SumOver(_, _)
SumOver(px, set) ==
  IF set = {} THEN 0
  ELSE LET i == CHOOSE e \in set : TRUE
       IN ClaimedDeduct(px, i) * ClaimedWeight(ClaimedRank(px, i))
            + SumOver(px, set \ {i})

\* max(0, 100 - min(100, weighted sum)), in Fine
ClaimedScore(px) ==
  RealMax(0, 100 * Fine - RealMin(100 * Fine, SumOver(px, PositiveEntries(px))))

\* C6: calculatePCI takes one deduct min(cap, a * density^b) per category
\* with a positive density, weights them 1.0, 0.7, 0.4, 0.1, 0.1 from the
\* highest down, clamps the sum to 100 and returns max(0, 100 - sum) rounded
\* to one decimal; no positive density gives 100 / "Good"; alligator 1 alone
\* gives deduct 28, score 72.0 / "Satisfactory".
C6_PowerLawScore ==
  pciPc = "done"
    => /\ Len(pciDeductValues) = Cardinality(PositiveEntries(pixelPercentages))
       /\ \A i \in PositiveEntries(pixelPercentages) :
            \E k \in 1..Len(pciDeductValues) :
              /\ pciDeductValues[k].type = densityKeys[i][1]
              /\ pciDeductValues[k].value = ClaimedDeduct(pixelPercentages, i)
       /\ \A k \in 1..(Len(pciDeductValues) - 1) :
            pciDeductValues[k].value >= pciDeductValues[k + 1].value
       /\ pciResult.pci_score = RoundFine(ClaimedScore(pixelPercentages))
       /\ PositiveEntries(pixelPercentages) = {}
            => pciResult.pci_score = 1000 /\ pciResult.pci_rating = "Good"
       /\ (PositiveEntries(pixelPercentages) = {1}
             /\ pixelPercentages["alligator"] = 100)
            => /\ pciDeductValues = <<[type |-> "alligator", value |-> 28 * Micro]>>
               /\ pciResult.pci_score = 720
               /\ pciResult.pci_rating = "Satisfactory"

\* all five categories had a positive density, so the fifth weight was used
C6_Witness ==
  /\ pciPc = "done"
  /\ Len(pciDeductValues) = 5
  /\ pciDeductValues[1].value > pciDeductValues[5].value
  /\ pciResult.pci_score > 0

\* C7: whatever the densities (missing, zero, negative, large), pci_score and
\* total_deduct_value lie in [0,100] and no deduct is negative.
C7_ScoreAndDeductsInRange ==
  pciPc = "done"
    => /\ pciResult.pci_score >= 0 /\ pciResult.pci_score <= 1000
       /\ pciResult.total_deduct_value >= 0
       /\ pciResult.total_deduct_value <= 1000
       /\ \A k \in 1..Len(pciDeductValues) : pciDeductValues[k].value >= 0
       /\ \A t \in DOMAIN pciResult.deduct_breakdown :
            pciResult.deduct_breakdown[t] >= 0

\* a missing, a negative and three saturating densities: the weighted sum
\* exceeded 100 and was capped
C7_Witness ==
  /\ pciPc = "done"
  /\ "transverse" \notin DOMAIN pixelPercentages
  /\ "sealed_crack" \in DOMAIN pixelPercentages
  /\ pixelPercentages["sealed_crack"] < 0
  /\ Len(pciDeductValues) = 3
  /\ WeightedSum(pciDeductValues, 1) > 100 * Fine
  /\ pciResult.total_deduct_value = 1000
  /\ pciResult.pci_score = 0

---------------------------------------------------------------------------
(* Properties of the score-to-band mappings, checked under SpecBands.      *)

\* the band of a score, 1 the best: a threshold belongs to the higher band
Band7(p) ==
  CHOOSE n \in 1..7 :
    \/ n = 1 /\ p >= 85 * Fine
    \/ n = 2 /\ 70 * Fine <= p /\ p < 85 * Fine
    \/ n = 3 /\ 55 * Fine <= p /\ p < 70 * Fine
    \/ n = 4 /\ 40 * Fine <= p /\ p < 55 * Fine
    \/ n = 5 /\ 25 * Fine <= p /\ p < 40 * Fine
    \/ n = 6 /\ 10 * Fine <= p /\ p < 25 * Fine
    \/ n = 7 /\ p < 10 * Fine

\* C8: getPCIRating has the bands >=85, [70,85), [55,70), [40,55), [25,40)
\* and <25; getPixelBasedPCIRating adds [10,25) and <10; getPCIColor has the
\* seven bands of the pixel variant; a threshold belongs to the higher band.
C8_BandThresholds ==
  bandPc = "done"
    => /\ bands.rating =
            << "Excellent", "Good", "Fair", "Poor", "Very Poor",
               "Failed", "Failed" >>[Band7(pci)]
       /\ bands.pixelRating =
            << "Good", "Satisfactory", "Fair", "Poor", "Very Poor",
               "Serious", "Failed" >>[Band7(pci)]
       /\ bands.color =
            << "#16a34a", "#65a30d", "#facc15", "#f97316", "#ea580c",
               "#dc2626", "#991b1b" >>[Band7(pci)]

\* the score 85 exactly was rated, and fell in the best band
C8_Witness ==
  /\ bandPc = "done"
  /\ pci = 85 * Fine
  /\ bands.rating = "Excellent"
  /\ bands.pixelRating = "Good"

---------------------------------------------------------------------------
(* Properties of convertParentTracksToFeatures, checked under SpecSeg.     *)
(* They are written over sets: which segments a track is in and how often, *)
(* whatever the order in which the code visits them.                       *)

\* the parent tracks whose children have been assigned
AssignedParents ==
  IF segPc \in { "assign", "done" } THEN 1..(parentIdx - 1) ELSE {}

\* the segments of a job that the frame ids of a track map to
MappedSegments(jobId, frameIds) ==
  IF jobId \notin DOMAIN jobFrameToSegment THEN {}
  ELSE { jobFrameToSegment[jobId].frameToSegment[frameIds[k]] :
           k \in { i \in 1..Len(frameIds) :
                     frameIds[i] \in DOMAIN jobFrameToSegment[jobId].frameToSegment } }

\* the places <<i, k>> of segmentData where a track is held
PlacesOf(trackId) ==
  { place \in UNION { { <<i, k>> : k \in 1..Len(segmentData[i].tracks) } :
                      i \in 1..Len(segmentData) } :
      segmentData[place[1]].tracks[place[2]].track_id = trackId }

\* the segments a track is assigned to
SegmentsOf(trackId) ==
  { <<segmentData[place[1]].job_id, segmentData[place[1]].segment_id>> :
      place \in PlacesOf(trackId) }

\* how often a track is held by one segment
TimesIn(trackId, jobId, segmentId) ==
  Cardinality({ place \in PlacesOf(trackId) :
                  /\ segmentData[place[1]].job_id = jobId
                  /\ segmentData[place[1]].segment_id = segmentId })

RECURSIVE DamageOf(_)
DamageOf(tracks) ==
  IF tracks = <<>> THEN 0 ELSE tracks[1].track_damage + DamageOf(Tail(tracks))

\* the damage of the tracks of one parent within a list of tracks
RECURSIVE DamageOfParent(_, _)
DamageOfParent(tracks, parentTrackId) ==
  IF tracks = <<>> THEN 0
  ELSE (IF tracks[1].parent_track_id = parentTrackId
        THEN tracks[1].track_damage ELSE 0)
       + DamageOfParent(Tail(tracks), parentTrackId)

\* the damage of one parent's children summed over all segments
RECURSIVE AttributedDamage(_, _)
AttributedDamage(data, parentTrackId) ==
  IF data = <<>> THEN 0
  ELSE DamageOfParent(data[1].tracks, parentTrackId)
       + AttributedDamage(Tail(data), parentTrackId)

\* every segment's damage is the sum of the whole track_damage of each
\* track it holds
DamageIsWhole ==
  \A i \in 1..Len(segmentData) :
    segmentData[i].damage = DamageOf(segmentData[i].tracks)

\* C9: when the frame ids of a parent track map to two or more segments of
\* its job, each child track is held once by every segment its own frame
\* ids map to, with its whole track_damage, every child is held by at least
\* one segment, and the damage attributed over all segments is at least the
\* sum of the children's track_damage (what one segment would have got).
C9_EachChildInItsSegments ==
  /\ DamageIsWhole
  /\ \A p \in AssignedParents :
       LET parent == allParentTracks[p]
       IN Cardinality(MappedSegments(parent.job_id, parent.frame_ids)) >= 2 =>
            /\ \A c \in 1..Len(parent.children) :
                 LET child == parent.children[c]
                 IN /\ \A s \in MappedSegments(parent.job_id, child.frame_ids) :
                         TimesIn(child.track_id, parent.job_id, s) = 1
                    /\ SegmentsOf(child.track_id) # {}
                    /\ \A place \in PlacesOf(child.track_id) :
                         segmentData[place[1]].tracks[place[2]].track_damage
                           = child.track_damage
            /\ AttributedDamage(segmentData, parent.parent_track_id)
                 >= DamageOf(parent.children)

\* a parent over two segments has been assigned: one child with damage lies
\* in two of them, another child has no mapped frame of its own
C9_Witness ==
  /\ segPc = "done"
  /\ \E p \in AssignedParents :
       LET parent == allParentTracks[p]
       IN /\ Cardinality(MappedSegments(parent.job_id, parent.frame_ids)) >= 2
          /\ \E c, d \in 1..Len(parent.children) :
               /\ Cardinality(MappedSegments(parent.job_id,
                                             parent.children[c].frame_ids)) >= 2
               /\ parent.children[c].track_damage >= 1
               /\ MappedSegments(parent.job_id, parent.children[d].frame_ids) = {}
               /\ parent.children[d].track_damage >= 1
          /\ AttributedDamage(segmentData, parent.parent_track_id)
               > DamageOf(parent.children)

\* the one segment of a parent whose frame ids map to at most one segment
OnlySegment(mapped) == IF mapped = {} THEN 0 ELSE CHOOSE s \in mapped : TRUE

\* the emitted features that hold a track
FeaturesOf(trackId) ==
  { k \in 1..Len(segments) :
      \E t \in 1..Len(segments[k].overlapping_tracks) :
        segments[k].overlapping_tracks[t].track_id = trackId }

\* C10: when the frame ids of a parent track of a job with a GPS mapping
\* map to exactly one segment, or to none, every child track is held once
\* by that segment (segment 0 when none) and by no other one, and all of
\* its damage is in the damage_count of the one feature of that segment.
C10_AllChildrenInOneSegment ==
  \A p \in AssignedParents :
    LET parent == allParentTracks[p]
        mapped == MappedSegments(parent.job_id, parent.frame_ids)
    IN (parent.job_id \in DOMAIN jobFrameToSegment /\ Cardinality(mapped) <= 1) =>
         \A c \in 1..Len(parent.children) :
           LET child == parent.children[c]
           IN /\ SegmentsOf(child.track_id) = { <<parent.job_id, OnlySegment(mapped)>> }
              /\ TimesIn(child.track_id, parent.job_id, OnlySegment(mapped)) = 1
              /\ segPc = "done" =>
                   /\ Cardinality(FeaturesOf(child.track_id)) = 1
                   /\ \A k \in FeaturesOf(child.track_id) :
                        /\ segments[k].job_id = parent.job_id
                        /\ segments[k].segment_id = OnlySegment(mapped) + 1
                        /\ segments[k].damage_count
                             = DamageOf(segments[k].overlapping_tracks)
                        /\ \E t \in 1..Len(segments[k].overlapping_tracks) :
                             /\ segments[k].overlapping_tracks[t].track_id
                                  = child.track_id
                             /\ segments[k].overlapping_tracks[t].track_damage
                                  = child.track_damage

\* two parents have been assigned: the frames of one lie in one segment
\* that is not the first while its child's frames also lie elsewhere, the
\* frames of the other map to no segment while its child's frames do
C10_Witness ==
  /\ segPc = "done"
  /\ \E p, q \in AssignedParents :
       LET parent == allParentTracks[p]
           other == allParentTracks[q]
       IN /\ parent.job_id \in DOMAIN jobFrameToSegment
          /\ Cardinality(MappedSegments(parent.job_id, parent.frame_ids)) = 1
          /\ OnlySegment(MappedSegments(parent.job_id, parent.frame_ids)) >= 1
          /\ \E c \in 1..Len(parent.children) :
               /\ parent.children[c].track_damage >= 1
               /\ 0 \in MappedSegments(parent.job_id, parent.children[c].frame_ids)
          /\ other.job_id \in DOMAIN jobFrameToSegment
          /\ MappedSegments(other.job_id, other.frame_ids) = {}
          /\ \E c \in 1..Len(other.children) :
               /\ other.children[c].track_damage >= 1
               /\ \E s \in MappedSegments(other.job_id, other.children[c].frame_ids) :
                    s >= 1

\* the recording of a job in the load, <<>> when the job has none
RecordingOf(jobId) ==
  IF \E i \in 1..Len(gpsFrameMappings) : gpsFrameMappings[i].job_id = jobId
  THEN gpsFrameMappings[CHOOSE i \in 1..Len(gpsFrameMappings) :
                          gpsFrameMappings[i].job_id = jobId].frames
  ELSE <<>>

\* the load is the scenario of C11 for feature p and its child c: the only
\* recording is the one of the feature's job, three frames 0, 1, 2 at 0 ft,
\* 300 ft and 600 ft; the parent and the child have frame_range [0, 2] and
\* the child has one defect, not a sealed crack, at frame 1
IsEndToEndScenario(p, c) ==
  /\ Len(gpsFrameMappings) = 1
  /\ gpsFrameMappings[1].job_id = features[p].job_id
  /\ LET frames == gpsFrameMappings[1].frames
     IN /\ Len(frames) = 3
        /\ \A i \in 1..3 : frames[i].frame_id = i - 1
        /\ frames[2].feet = 300
        /\ frames[3].feet = 300
  /\ features[p].frame_range = <<0, 2>>
  /\ features[p].child_tracks[c].frame_range = <<0, 2>>
  /\ Len(features[p].child_tracks[c].defects) = 1
  /\ features[p].child_tracks[c].defects[1].frame_id = 1
  /\ features[p].child_tracks[c].defects[1].defect_type # "sealed_crack"

\* what C11 says of the scenario: frames 0 and 1 in segment 0, frame 2 in
\* segment 1, the parent over {0, 1}, and the child's track_damage of 1 in
\* segment 0 and in segment 1
EndToEndOutcome(p, c) ==
  LET parent == allParentTracks[p]
      child == parent.children[c]
  IN /\ jobFrameToSegment[parent.job_id].frameToSegment = (0 :> 0) @@ (1 :> 0) @@ (2 :> 1)
     /\ MappedSegments(parent.job_id, parent.frame_ids) = { 0, 1 }
     /\ child.track_damage = 1
     /\ \A s \in { 0, 1 } :
          /\ TimesIn(child.track_id, parent.job_id, s) = 1
          /\ \A place \in PlacesOf(child.track_id) :
               segmentData[place[1]].tracks[place[2]].track_damage = 1
     /\ DamageIsWhole

\* C11 as stated: in the end-to-end scenario (three frames at 0, 300 and
\* 600 ft, one child track of frame_range [0, 2] with one defect at frame 1
\* that is no sealed crack) frames 0 and 1 are in segment 0, frame 2 in
\* segment 1, the parent spans {0, 1} and the child's track_damage of 1 is
\* added to both segments.
C11_EndToEndOriginal ==
  \A p \in AssignedParents :
    \A c \in 1..Len(features[p].child_tracks) :
      IsEndToEndScenario(p, c) => EndToEndOutcome(p, c)

\* C11, amended: the same, for a recording in which frame 1 was reached at
\* 5 mph or more.
C11_EndToEnd ==
  \A p \in AssignedParents :
    \A c \in 1..Len(features[p].child_tracks) :
      (IsEndToEndScenario(p, c) /\ gpsFrameMappings[1].frames[2].speed_mph >= 500)
        => EndToEndOutcome(p, c)

\* the scenario has been run to the end on a recording fast enough at frame 1
C11_Witness ==
  /\ segPc = "done"
  /\ \E p \in AssignedParents :
       \E c \in 1..Len(features[p].child_tracks) :
         /\ IsEndToEndScenario(p, c)
         /\ gpsFrameMappings[1].frames[2].speed_mph >= 500
         /\ Len(features) = 1
         /\ Len(features[p].child_tracks) = 1
         /\ \E k \in 1..Len(segments) :
              segments[k].segment_id = 2 /\ segments[k].damage_count = 1

\* the emitted features of one job
FeaturesOfJob(jobId) == { k \in 1..Len(segments) : segments[k].job_id = jobId }

\* C12: the Road Segments emitted for one job are contiguous and do not
\* overlap: their segment ids form a run without gap, no two of their
\* intervals [start_feet, end_feet) overlap, and each one starts where the
\* one before it, in the order of the output, ends.
C12_ContiguousSegments ==
  segPc = "done" =>
    \A jobId \in JobIds :
      /\ \A k, l \in FeaturesOfJob(jobId) :
           \A id \in segments[k].segment_id..segments[l].segment_id :
             \E m \in FeaturesOfJob(jobId) : segments[m].segment_id = id
      /\ \A k, l \in FeaturesOfJob(jobId) :
           k # l => \/ segments[k].end_feet <= segments[l].start_feet
                    \/ segments[l].end_feet <= segments[k].start_feet
      /\ \A k \in FeaturesOfJob(jobId) :
           (k + 1) \in FeaturesOfJob(jobId)
             => segments[k].end_feet = segments[k + 1].start_feet

\* the speed datum of the frame a defect of a job comes from: the speed_mph
\* of the frame of that id in the recording of the job, NoSpeed when the
\* job has no recording, the recording has no such frame or the frame has
\* no speed
SpeedDatum(jobId, frameId) ==
  LET frames == RecordingOf(jobId)
  IN IF \E i \in 1..Len(frames) : frames[i].frame_id = frameId
     THEN frames[CHOOSE i \in 1..Len(frames) : frames[i].frame_id = frameId].speed_mph
     ELSE NoSpeed

\* the defects of a list that count: no sealed crack, and no speed datum
\* or a speed of 5 mph or more
CountedDefects(jobId, defects) ==
  { i \in 1..Len(defects) :
      /\ defects[i].defect_type # "sealed_crack"
      /\ \/ SpeedDatum(jobId, defects[i].frame_id) = NoSpeed
         \/ SpeedDatum(jobId, defects[i].frame_id) >= 500 }

\* C13: the track_damage of a child track is the number of its defects that
\* are no sealed_crack and whose originating frame has no speed datum or a
\* speed of at least 5 mph; a defect of a frame below 5 mph is never
\* counted, a defect without speed datum always is.
C13_TrackDamageCount ==
  segPc \in { "assign", "done" } =>
    \A p \in 1..Len(allParentTracks) :
      \A c \in 1..Len(allParentTracks[p].children) :
        allParentTracks[p].children[c].track_damage
          = Cardinality(CountedDefects(features[p].job_id,
                                       features[p].child_tracks[c].defects))

\* the same count holds of the tracks of a job whose recording is the only
\* one of the load
TrackDamageCountAlone ==
  (segPc \in { "assign", "done" } /\ Len(gpsFrameMappings) <= 1) =>
    \A p \in 1..Len(allParentTracks) :
      \A c \in 1..Len(allParentTracks[p].children) :
        RecordingOf(features[p].job_id) # <<>> =>
          allParentTracks[p].children[c].track_damage
            = Cardinality(CountedDefects(features[p].job_id,
                                         features[p].child_tracks[c].defects))

\* job id x comes before job id y
JobBefore(x, y) == x = "a" /\ y = "b"

\* the entries of segmentData come in an order that is not the one of the
\* output: a later job first, or a later segment of the same job first
ArrivedOutOfOrder ==
  \E i, j \in 1..Len(segmentData) :
    /\ i < j
    /\ \/ JobBefore(segmentData[j].job_id, segmentData[i].job_id)
       \/ /\ segmentData[j].job_id = segmentData[i].job_id
          /\ segmentData[j].segment_id < segmentData[i].segment_id

\* C20: the features returned are ordered by job id and, within a job, by
\* ascending segment id, in whatever order the features and the jobs
\* arrived and the segments were created.
C20_SortedOutput ==
  segPc = "done" =>
    \A k, l \in 1..Len(segments) :
      k < l =>
        \/ JobBefore(segments[k].job_id, segments[l].job_id)
        \/ /\ segments[k].job_id = segments[l].job_id
           /\ segments[k].segment_id < segments[l].segment_id

\* an output of the segments of two jobs, three at least, whose entries
\* were created out of order, all of them emitted
C20_Witness ==
  /\ segPc = "done"
  /\ ArrivedOutOfOrder
  /\ Len(segments) = Len(segmentData)
  /\ Len(segments) >= 3
  /\ \E k, l \in 1..Len(segments) : segments[k].job_id # segments[l].job_id
  /\ \E i \in 1..(Len(gpsFrameMappings) - 1) :
       JobBefore(gpsFrameMappings[i + 1].job_id, gpsFrameMappings[i].job_id)
  /\ Len(features) = 2 /\ JobBefore(features[2].job_id, features[1].job_id)

---------------------------------------------------------------------------
(* The features of a load (SpecFrames).                                    *)

\* the fetched features have just been normalised; allFeatures does not
\* change afterwards
Normalized == framePc = "aggregate"

\* C14: in 'data' mode the detection_count_in_frame of a normalised feature
\* is max(stated count, 1); in the other mode it is the length of
\* all_detections_in_frame.
C14_DetectionCount ==
  Normalized =>
    \A i \in 1..Len(allFeatures) :
      LET stated == fetchedFeatures[i].properties.detection_count_in_frame
          after == allFeatures[i].properties
      IN IF targetMode = "data"
         THEN stated # Undefined =>
                after.detection_count_in_frame = RealMax(stated, 1)
         ELSE after.detections_array =>
                after.detection_count_in_frame = Len(after.all_detections_in_frame)

\* what holds in both modes: the count is the length of the deduplicated
\* all_detections_in_frame whenever the feature has one, and 'data' mode
\* gives every feature one
CountIsArrayLength ==
  Normalized =>
    \A i \in 1..Len(allFeatures) :
      LET after == allFeatures[i].properties
      IN /\ targetMode = "data" => after.detections_array
         /\ after.detections_array =>
              after.detection_count_in_frame = Len(after.all_detections_in_frame)
         /\ ~after.detections_array =>
              after.detection_count_in_frame
                = fetchedFeatures[i].properties.detection_count_in_frame

---------------------------------------------------------------------------
\* the multiple of ten nearest to x >= 0, a half going up, in tens
Nearest(x) ==
  CHOOSE n \in {x \div 10, x \div 10 + 1} : 10 * n - 5 <= x /\ x < 10 * n + 5

\* the frame of a detection: its own, or else the frame of its feature
FrameOfDetection(det, featureFrame) ==
  IF det.frame_id.kind # "undefined" THEN det.frame_id
  ELSE IF det.frame_number.kind # "undefined" THEN det.frame_number
  ELSE featureFrame

\* the dedup key the claim describes: the defect_id when present (with
\* orId, the id of a detection that has no defect_id counts as one),
\* otherwise frame, track, class, confidence to 4 decimals and bbox to 2
ClaimedKey(det, featureFrame, orId) ==
  IF det.defect_id # Undefined
  THEN <<"defect", det.defect_id, "", Undefined, "", Undefined, <<>> >>
  ELSE IF orId /\ det.id # Undefined
  THEN <<"defect", det.id, "", Undefined, "", Undefined, <<>> >>
  ELSE << "composite", Undefined,
          frameText(FrameOfDetection(det, featureFrame)),
          det.track_id,
          det.class_name,
          IF det.confidence = Undefined THEN Undefined ELSE Nearest(det.confidence),
          [ i \in 1..Len(det.bbox) |-> Nearest(det.bbox[i]) ] >>

\* the positions of the detections that are the first of their key; a null
\* entry has no key
FirstOfKey(dets, featureFrame, orId) ==
  { i \in 1..Len(dets) :
      \/ dets[i].isNull
      \/ \A j \in 1..(i - 1) :
           \/ dets[j].isNull
           \/ ClaimedKey(dets[j], featureFrame, orId)
                # ClaimedKey(dets[i], featureFrame, orId) }

\* the detections at these positions, in their order
ClaimedDedupe(dets, featureFrame, orId) ==
  LET kept == FirstOfKey(dets, featureFrame, orId)
  IN [ k \in 1..Cardinality(kept) |->
         dets[CHOOSE i \in kept : Cardinality({ j \in kept : j < i }) = k - 1] ]

\* every all_detections_in_frame handed to dedupeDetectionsArray (line 379)
\* comes back as ClaimedDedupe of it
DedupesAsClaimed(orId) ==
  Normalized =>
    \A i \in 1..Len(allFeatures) :
      LET before == fetchedFeatures[i].properties
          after == allFeatures[i].properties
      IN before.detections_array /\ before.all_detections_in_frame # <<>> =>
           after.all_detections_in_frame
             = ClaimedDedupe(before.all_detections_in_frame,
                             Coalesce(after.frame_id, after.frame_number), orId)

\* C19 as stated: dedupeDetectionsArray keeps, for each dedup key (defect_id
\* when present, otherwise frame|track|class|confidence to 4 decimals|bbox
\* to 2 decimals), exactly the first detection carrying that key, drops
\* every later one and preserves the order of the kept detections.
C19_DedupeOriginal == DedupesAsClaimed(FALSE)

\* C19, amended: the key is the defect_id, or the id of a detection that has
\* no defect_id, and only without both the composite of frame, track, class,
\* confidence to 4 decimals and bbox to 2 decimals; for each key exactly the
\* first detection carrying it is kept, every later one is dropped, and the
\* kept detections (null entries among them) keep their order.
C19_Dedupe == DedupesAsClaimed(TRUE)

\* three detections without defect_id or id, the second differing from the
\* first in digits that toFixed drops: the first and the third are kept
C19_Witness ==
  /\ Normalized
  /\ \E i \in 1..Len(allFeatures) :
       LET before == fetchedFeatures[i].properties.all_detections_in_frame
           after == allFeatures[i].properties.all_detections_in_frame
       IN /\ Len(before) = 3
          /\ \A k \in 1..3 : /\ ~before[k].isNull
                             /\ before[k].defect_id = Undefined
                             /\ before[k].id = Undefined
          /\ before[2] # before[1]
          /\ before[2].confidence # before[1].confidence
          /\ after = <<before[1], before[3]>>

---------------------------------------------------------------------------
(* Aggregation by frame (SpecFrames).  The frame identifier of a feature   *)
(* is the key deriveFrameIdentifier gives it.                              *)

KeyOf(f) == deriveFrameIdentifier(f.properties).key

\* aggregation has run: two features of the load share a frame identifier
AggregationRan ==
  /\ framePc = "loaded"
  /\ \E i, j \in 1..Len(allFeatures) :
       i # j /\ KeyOf(allFeatures[i]) # "" /\ KeyOf(allFeatures[i]) = KeyOf(allFeatures[j])

\* the first feature of every frame identifier
FirstOfFrame ==
  { i \in 1..Len(allFeatures) :
      /\ KeyOf(allFeatures[i]) # ""
      /\ \A j \in 1..(i - 1) : KeyOf(allFeatures[j]) # KeyOf(allFeatures[i]) }

\* the features that share the frame identifier of feature i
Members(i) ==
  { j \in 1..Len(allFeatures) : KeyOf(allFeatures[j]) = KeyOf(allFeatures[i]) }

\* the features without a frame identifier, in their order
Orphans == SelectSeq(allFeatures, LAMBDA f : KeyOf(f) = "")

\* the detections of the features of a set, in the order of the features
RECURSIVE DetectionsUpTo(_, _)
DetectionsUpTo(members, last) ==
  IF last = 0 THEN <<>>
  ELSE DetectionsUpTo(members, last - 1)
         \o (IF last \in members
             THEN gatherDetectionsForFeature(allFeatures[last])
             ELSE <<>>)

DetectionsOf(members) == DetectionsUpTo(members, Len(allFeatures))

\* the ways to name, for every frame identifier, one merged Frame of the
\* output that carries its number (or, without a number, its key), no
\* Frame being named twice
Correspondences ==
  { p \in [FirstOfFrame -> 1..Cardinality(FirstOfFrame)] :
      /\ \A i, j \in FirstOfFrame : i # j => p[i] # p[j]
      /\ \A i \in FirstOfFrame :
           /\ p[i] <= Len(aggregatedFrameFeatures)
           /\ LET given == deriveFrameIdentifier(allFeatures[i].properties)
                  kept == deriveFrameIdentifier(
                            aggregatedFrameFeatures[p[i]].properties)
              IN /\ kept.numeric = given.numeric
                 /\ given.numeric = Undefined => kept.key = given.key }

---------------------------------------------------------------------------
\* the timestamp of a raw feature: its gps_timestamp, or else its
\* globalTimestamp (lines 439-446)
RecordTimestamp(f) ==
  OrElse(f.properties.gps_timestamp, f.properties.globalTimestamp)

\* the non-null timestamps of the features of a set
TimestampsOf(members) ==
  { RecordTimestamp(allFeatures[j]) : j \in members } \ {Undefined}

Earliest(timestamps) == CHOOSE t \in timestamps : \A u \in timestamps : t <= u

\* C15: when several raw features share one frame identifier, the
\* globalTimestamp of the merged Frame is the earliest non-null timestamp
\* among all of the merged records, a timestamp of 0 and the records whose
\* detections were dropped as duplicates included.
C15_EarliestTimestamp ==
  AggregationRan =>
    \E p \in Correspondences :
      \A i \in FirstOfFrame :
        TimestampsOf(Members(i)) # {} =>
          aggregatedFrameFeatures[p[i]].properties.globalTimestamp
            = Earliest(TimestampsOf(Members(i)))

\* the same for the loads without a timestamp of 0, and for the frames of
\* which no detection was dropped as a duplicate
EarliestTimestampOfCounted ==
  /\ AggregationRan
  /\ \A j \in 1..Len(allFeatures) : RecordTimestamp(allFeatures[j]) # 0
  => \E p \in Correspondences :
       \A i \in FirstOfFrame :
         /\ TimestampsOf(Members(i)) # {}
         /\ Len(aggregatedFrameFeatures[p[i]].properties.all_detections_in_frame)
              = Len(DetectionsOf(Members(i)))
         => aggregatedFrameFeatures[p[i]].properties.globalTimestamp
              = Earliest(TimestampsOf(Members(i)))

---------------------------------------------------------------------------
\* the features of a set whose geometry is a Point of two finite numbers
ValidPoints(members) ==
  { j \in members :
      /\ allFeatures[j].geometry.type = "Point"
      /\ Len(allFeatures[j].geometry.coordinates) = 2
      /\ allFeatures[j].geometry.coordinates[1][2] = 1
      /\ allFeatures[j].geometry.coordinates[2][2] = 1 }

\* the sum of one coordinate (1: lng, 2: lat) over the features of a set
RECURSIVE CoordinateSum(_, _)
CoordinateSum(members, c) ==
  IF members = {} THEN 0
  ELSE LET j == CHOOSE x \in members : TRUE
       IN allFeatures[j].geometry.coordinates[c][1]
            + CoordinateSum(members \ {j}, c)

\* the fraction value is the mean of coordinate c over the features of a set
IsMean(value, members, c) ==
  /\ value[2] # 0
  /\ value[1] * Cardinality(members) = CoordinateSum(members, c) * value[2]

\* C16: when several raw features share one frame identifier, the point of
\* the merged Frame is the average of the valid Point coordinates of the
\* merged raw features: only pairs of finite numbers count, and the
\* coordinate of each raw feature counts once.
C16_AverageCoordinate ==
  AggregationRan =>
    \E p \in Correspondences :
      \A i \in FirstOfFrame :
        ValidPoints(Members(i)) # {} =>
          LET geometry == aggregatedFrameFeatures[p[i]].geometry
          IN /\ geometry.type = "Point"
             /\ Len(geometry.coordinates) = 2
             /\ IsMean(geometry.coordinates[1], ValidPoints(Members(i)), 1)
             /\ IsMean(geometry.coordinates[2], ValidPoints(Members(i)), 2)

---------------------------------------------------------------------------
\* C17: frame aggregation is idempotent: aggregateDetectionsByFrame applied
\* to its own result returns that result unchanged.
C17_Idempotent ==
  framePc = "again" => reaggregatedFeatures = aggregatedFrameFeatures

\* the same for the loads in which no two frame identifiers spell one number
IdempotentUnlessRespelled ==
  /\ framePc = "again"
  /\ \A i, j \in FirstOfFrame :
       LET a == deriveFrameIdentifier(allFeatures[i].properties)
           b == deriveFrameIdentifier(allFeatures[j].properties)
       IN a.numeric # Undefined /\ a.numeric = b.numeric => a.key = b.key
  => reaggregatedFeatures = aggregatedFrameFeatures

---------------------------------------------------------------------------
(* The correction curve of an iteration (getCDVFromCurve)                  *)

\* the curve the claim reads for a count q: q clamped to [1,10]
ClaimedCurve(q) == CDV_CORRECTION_CURVES[RealMax(1, RealMin(10, q))]

\* the largest TDV a curve is defined for: 120 for q = 1, 200 otherwise
LastKey(curve) == curve[Len(curve)][1] * Unit

\* the CDV an iteration records lies on the curve of its q at tdv, for the
\* tdv between lowest and highest
RecordsCurveValue(lowest, highest) ==
  LET q == CountSignificant(workingDeducts)
      tdv == SumSeq(workingDeducts)
      curve == ClaimedCurve(q)
  IN (~IsNaN(tdv) /\ lowest <= tdv /\ tdv <= highest)
       => \E i \in 1..(Len(curve) - 1) :
            /\ curve[i][1] * Unit <= tdv /\ tdv <= curve[i + 1][1] * Unit
            /\ (cdvResults'[Len(cdvResults')] - curve[i][2] * Unit)
                 * (curve[i + 1][1] - curve[i][1])
                 = (tdv - curve[i][1] * Unit) * (curve[i + 1][2] - curve[i][2])

\* C23: in every correction iteration, the recorded CDV is the
\* piecewise-linear interpolation of the breakpoints of the curve for q
\* (q clamped to [1,10]) at the iteration's TDV, over the whole TDV range
\* the curve is defined for (0..120 for q = 1, 0..200 for q = 2..10); q = 2
\* with TDV = 120 records 82.
C23_CurveInterpolation ==
  [][CDVIterate =>
       RecordsCurveValue(0, LastKey(ClaimedCurve(CountSignificant(workingDeducts))))]_vars

\* what the code does: the interpolation up to a TDV of 100, and the curve's
\* value at 100 for every larger TDV
CurveInterpolationUpTo100 ==
  [][CDVIterate =>
       /\ RecordsCurveValue(0, 100 * Unit)
       /\ LET q == CountSignificant(workingDeducts)
              tdv == SumSeq(workingDeducts)
              curve == ClaimedCurve(q)
          IN (~IsNaN(tdv) /\ tdv > 100 * Unit)
               => \E i \in 1..Len(curve) :
                    /\ curve[i][1] = 100
                    /\ cdvResults'[Len(cdvResults')] = curve[i][2] * Unit]_vars

---------------------------------------------------------------------------
(* Termination of the correction loop                                      *)

\* the loop of applyMultipleDeductCorrection has been left
LoopLeft == cdvPc \in {"max", "done"} /\ cdvExit # "direct"

\* one pass that reduces a value lowers q by exactly one
QLoweredByOne ==
  CDVIterate /\ iteration' = iteration + 1
    => CountSignificant(workingDeducts') = CountSignificant(workingDeducts) - 1

\* the loop is left because q <= 1, after at most 10 reductions
LeftByQ == LoopLeft => cdvExit = "q" /\ iteration <= 10

\* C24: for a list of non-negative values the correction loop ends by
\* reaching q <= 1: q decreases by exactly one per iteration, at most 10
\* reductions are performed, and neither the cap of 20 iterations nor the
\* exit 'could not find deduct > 2.0 to reduce' is taken.
C24_TerminatesByQ ==
  /\ [](NonNegative(deductValues) => LeftByQ)
  /\ [][NonNegative(deductValues) => QLoweredByOne]_vars

\* the same for lists whose values lie in [0,100], where m is at least 1
TerminatesByQUpTo100 ==
  /\ []((\A i \in 1..Len(deductValues) :
           0 <= deductValues[i] /\ deductValues[i] <= 100 * Unit) => LeftByQ)
  /\ [][QLoweredByOne]_vars

---------------------------------------------------------------------------
(* One more deduct value, checked under SpecAppend                         *)

\* both lists have been corrected
BothCorrected == appendPc = "done"

\* the CDV of the longer list is lower than the CDV of the shorter one
Lowered == JsGt(shorterCDV, longerCDV)

\* the function of the argument is the function the steps of SpecCDV
\* compute
SameAsStepwise ==
  Returned => maxCDV = applyMultipleDeductCorrection(deductValues)

\* C27 as stated: appending one more non-negative value to a list of
\* non-negative values never lowers the returned CDV.
C27_MonotoneOriginal ==
  BothCorrected /\ NonNegative(shorterList) /\ appendedValue >= 0 => ~Lowered

\* C27: appending a non-negative value that does not exceed the highest
\* value of a list of non-negative values, at least two of them above 2.0,
\* never lowers the returned CDV.
C27_Monotone ==
  /\ BothCorrected
  /\ NonNegative(shorterList)
  /\ NumAbove2(shorterList) >= 2
  /\ appendedValue >= 0
  /\ appendedValue <= RealMaxSeq(shorterList)
  => ~Lowered

\* a value above 2.0 and not above the highest is appended to a list with
\* two values above 2.0, and the CDV rises
C27_Witness ==
  /\ BothCorrected
  /\ NumAbove2(shorterList) >= 2
  /\ appendedValue > 2 * Unit
  /\ appendedValue <= RealMaxSeq(shorterList)
  /\ ~IsNaN(shorterCDV) /\ ~IsNaN(longerCDV)
  /\ longerCDV > shorterCDV

---------------------------------------------------------------------------
(* The two fields calculatePCI returns, checked under SpecPCI              *)

\* the returned pci_score (tenths) as a score
ReturnedScore == pciResult.pci_score * (Fine \div 10)

\* the score before it is rounded to one decimal
UnroundedScore ==
  IF 100 * Fine - total_cdv > 0 THEN 100 * Fine - total_cdv ELSE 0

\* C28: for every input, the returned pci_rating is getPixelBasedPCIRating
\* of the returned pci_score (the score rounded to one decimal).
C28_RatingOfReturnedScore ==
  pciPc = "done"
    => pciResult.pci_rating = getPixelBasedPCIRating(ReturnedScore)

\* what the code does: the rating is the band of the score before rounding,
\* which is the band of the returned score unless the rounding crosses a
\* threshold
RatingOfUnroundedScore ==
  pciPc = "done"
    => /\ pciResult.pci_rating = getPixelBasedPCIRating(UnroundedScore)
       /\ pciResult.pci_rating # getPixelBasedPCIRating(ReturnedScore)
            => \E t \in {10, 25, 40, 55, 70, 85} :
                 UnroundedScore < t * Fine /\ ReturnedScore = t * Fine

---------------------------------------------------------------------------
(* Segments and the video-segment index, checked under SpecSeg             *)

\* the entries of the job's index that carry the 1-indexed id of the
\* segment whose 0-indexed id is segmentId
IndexEntries(jobId, segmentId) ==
  IF jobId \in DOMAIN videoSegments
  THEN { i \in 1..Len(videoSegments[jobId]) :
           videoSegments[jobId][i].segment_id = segmentId + 1 }
  ELSE {}

\* the features emitted for an entry of segmentData
EmittedFor(entry) ==
  { k \in 1..Len(segments) :
      /\ segments[k].job_id = entry.job_id
      /\ segments[k].segment_id = entry.segment_id + 1 }

\* the PCI fields of a feature are those of calculatePCI for px
HasPCIOf(feature, px) ==
  /\ feature.pci_score = calculatePCI(px).result.pci_score
  /\ feature.pci_rating = calculatePCI(px).result.pci_rating

\* C25: a segment whose 0-indexed id + 1 matches no segment_id of its job's
\* video-segment index, or whose job has no index, is emitted all the same,
\* with empty pixel data and the PCI of empty percentages (pci_score 100);
\* a segment with a match has the PCI of the matching entry's
\* pixel_percentage_with_projections; the features of the other segments
\* do not depend on it.
C25_UnmatchedSegmentEmitted ==
  segPc = "done" =>
    /\ Len(segments)
         = Cardinality({ i \in 1..Len(segmentData) :
                           hasGeometry(segmentData[i], jobFrameToSegment) })
    /\ \A i \in 1..Len(segmentData) :
         LET entry == segmentData[i]
             matches == IndexEntries(entry.job_id, entry.segment_id)
         IN hasGeometry(entry, jobFrameToSegment) =>
              /\ Cardinality(EmittedFor(entry)) = 1
              /\ \A k \in EmittedFor(entry) :
                   /\ segments[k].damage_count = entry.damage
                   /\ segments[k].overlapping_tracks = entry.tracks
                   /\ IF matches = {}
                      THEN /\ segments[k].pixelData = NoPixelData
                           /\ HasPCIOf(segments[k], <<>>)
                           /\ segments[k].pci_score = 1000
                      ELSE LET first == CHOOSE m \in matches : \A n \in matches : m <= n
                               stated == videoSegments[entry.job_id][first]
                                           .pixel_percentage_with_projections
                           IN /\ segments[k].pixelData.stored
                              /\ segments[k].pixelData.pixel_percentage_with_projections
                                   = stated
                              /\ HasPCIOf(segments[k],
                                          IF stated.defined THEN stated.value ELSE <<>>)

\* the first job has an index: its first segment is matched (score 85.0),
\* its second segment is not, and both are emitted
C25_Witness ==
  /\ segPc = "done"
  /\ Jobs[1] \in DOMAIN videoSegments
  /\ \E k, l \in 1..Len(segments) :
       /\ segments[k].job_id = Jobs[1] /\ segments[k].segment_id = 1
       /\ segments[k].pixelData.stored /\ segments[k].pci_score = 850
       /\ segments[l].job_id = Jobs[1] /\ segments[l].segment_id = 2
       /\ segments[l].pixelData = NoPixelData /\ segments[l].pci_score = 1000
       /\ segments[l].damage_count > 0

---------------------------------------------------------------------------
(* Jobs without a GPS frame mapping, checked under SpecSeg                 *)

\* the entries of segmentData other than segment 0 of one job
EntriesBeside(data, jobId) ==
  SelectSeq(data, LAMBDA e : ~(e.job_id = jobId /\ e.segment_id = 0))

\* the parent assigned by this step belongs to a job without a mapping
AssignsUnmapped ==
  /\ segPc = "assign"
  /\ parentIdx <= Len(allParentTracks)
  /\ parentIdx' = parentIdx + 1
  /\ allParentTracks[parentIdx].job_id \notin DOMAIN jobFrameToSegment

\* every child of an assigned parent of a job without a mapping is held
\* once, by segment 0 of the job, with its damage counted once
UnmappedInSegmentZero ==
  \A p \in AssignedParents :
    LET parent == allParentTracks[p]
    IN parent.job_id \notin DOMAIN jobFrameToSegment =>
         \A c \in 1..Len(parent.children) :
           LET child == parent.children[c]
               i == segKeyIndex(segmentData, parent.job_id, 0)
           IN /\ SegmentsOf(child.track_id) = { <<parent.job_id, 0>> }
              /\ TimesIn(child.track_id, parent.job_id, 0) = 1
              /\ i # 0
              /\ segmentData[i].damage = DamageOf(segmentData[i].tracks)
              /\ \E t \in 1..Len(segmentData[i].tracks) :
                   /\ segmentData[i].tracks[t].track_id = child.track_id
                   /\ segmentData[i].tracks[t].track_damage = child.track_damage
              /\ segPc = "done" =>
                   \A k \in 1..Len(segments) :
                     (segments[k].job_id = parent.job_id /\ segments[k].segment_id = 1)
                       => /\ segments[k].damage_count = segmentData[i].damage
                          /\ segments[k].overlapping_tracks = segmentData[i].tracks

\* C21: for a job that has no GPS frame mapping, every child track of every
\* parent track of the job is assigned to segment 0 exactly once, its
\* track_damage added once to the damage_count of segment 0, and the
\* segments of the other jobs are left as they are.
C21_NoMappingSegmentZero ==
  /\ []UnmappedInSegmentZero
  /\ [][AssignsUnmapped =>
          EntriesBeside(segmentData', allParentTracks[parentIdx].job_id)
            = EntriesBeside(segmentData, allParentTracks[parentIdx].job_id)]_vars

\* two parents of two children in all have been assigned, one of a job
\* with a mapping and then one of a job without, whose child has damage
C21_Witness ==
  /\ segPc = "done"
  /\ Len(allParentTracks) = 2
  /\ allParentTracks[1].job_id \in DOMAIN jobFrameToSegment
  /\ allParentTracks[2].job_id \notin DOMAIN jobFrameToSegment
  /\ allParentTracks[2].children[1].track_damage > 0
  /\ \E k \in 1..Len(segments) :
       /\ segments[k].job_id = allParentTracks[2].job_id
       /\ segments[k].damage_count > 0

---------------------------------------------------------------------------
(* Several jobs in one load, checked under SpecSeg                         *)

\* the GPS frame mappings of the load without those of the other jobs
OwnMappings(jobId) == SelectSeq(gpsFrameMappings, LAMBDA m : m.job_id = jobId)

\* the track_damage of a child when only its own job's frames are loaded
DamageAlone(p, c) ==
  trackDamage(features[p].child_tracks[c].defects,
              buildFrameToSpeedMap(<<>>, OwnMappings(features[p].job_id)))

\* the segments that hold a child are segments of its own job, found from
\* the frames of that job: those its frame ids or its parent's map to, or 0
AssignedWithinOwnJob ==
  \A p \in AssignedParents :
    LET parent == allParentTracks[p]
    IN \A c \in 1..Len(parent.children) :
         \A place \in SegmentsOf(parent.children[c].track_id) :
           /\ place[1] = parent.job_id
           /\ place[2] \in MappedSegments(parent.job_id, parent.children[c].frame_ids)
                             \cup MappedSegments(parent.job_id, parent.frame_ids)
                             \cup {0}

\* C29: with several jobs loaded together, the track_damage and the segment
\* assignment of a child track depend only on the GPS frames of the track's
\* own job: the frames of another job, even with the same frame_id numbers,
\* never change whether one of its defects is counted.
C29_OwnJobOnly ==
  segPc \in { "assign", "done" } =>
    /\ AssignedWithinOwnJob
    /\ \A p \in 1..Len(allParentTracks) :
         \A c \in 1..Len(allParentTracks[p].children) :
           allParentTracks[p].children[c].track_damage = DamageAlone(p, c)

\* the part that holds: the segments of a child are found from its own job
SegmentsFromOwnJob == segPc \in { "assign", "done" } => AssignedWithinOwnJob

---------------------------------------------------------------------------
(* Continuous paths, checked under SpecPaths                               *)

\* processedPathSegments has formed its paths (none when it returns early)
PathsFormed == pathPc \in { "none", "done" }

FormedPaths == IF pathPc = "done" THEN continuousPaths ELSE <<>>

\* the point features with a timestamp, by their coordinates
TimedPoints ==
  { i \in 1..Len(geojsonFeatures) :
      geojsonFeatures[i].point /\ geojsonFeatures[i].globalTimestamp # NoTimestamp }

TimeOf(i) == geojsonFeatures[i].globalTimestamp

\* the path that holds a point, 0 when none does
PathOf(i) ==
  IF \E k \in 1..Len(FormedPaths) : InSeq(i, FormedPaths[k])
  THEN CHOOSE k \in 1..Len(FormedPaths) : InSeq(i, FormedPaths[k])
  ELSE 0

\* i and j follow one another in time: no point lies strictly between them
Consecutive(i, j) ==
  /\ i # j
  /\ TimeOf(i) <= TimeOf(j)
  /\ ~\E k \in TimedPoints : TimeOf(i) < TimeOf(k) /\ TimeOf(k) < TimeOf(j)

\* the paths are the runs of the points in the order of time, cut wherever
\* two consecutive points are more than 10,000 ms apart
PathsAreRuns ==
  /\ \A k \in 1..Len(FormedPaths) :
       /\ Len(FormedPaths[k]) >= 2
       /\ \A n \in 1..Len(FormedPaths[k]) : FormedPaths[k][n] \in TimedPoints
       /\ \A m, n \in 1..Len(FormedPaths[k]) :
            m < n => /\ FormedPaths[k][m] # FormedPaths[k][n]
                     /\ TimeOf(FormedPaths[k][m]) <= TimeOf(FormedPaths[k][n])
  /\ \A k, l \in 1..Len(FormedPaths) :
       k < l =>
         \A m \in 1..Len(FormedPaths[k]), n \in 1..Len(FormedPaths[l]) :
           /\ FormedPaths[k][m] # FormedPaths[l][n]
           /\ TimeOf(FormedPaths[k][m]) <= TimeOf(FormedPaths[l][n])
  /\ \A i, j \in TimedPoints :
       Consecutive(i, j) =>
         ((PathOf(i) # 0 /\ PathOf(i) = PathOf(j))
            <=> TimeOf(j) - TimeOf(i) <= TIMESTAMP_GAP_THRESHOLD_MS * PerMs)

\* C26: the point features with a valid globalTimestamp are ordered
\* chronologically and two consecutive points are in the same continuous
\* path exactly when their timestamps are at most 10,000 ms apart; every
\* kept path has at least 2 points, each point is in at most one path, and
\* the paths keep the chronological order.
C26_ContinuousPaths == PathsFormed => PathsAreRuns

\* the same for features whose timestamps are whole milliseconds other
\* than 0
ContinuousPathsOfWholeMs ==
  (/\ PathsFormed
   /\ \A i \in TimedPoints : TimeOf(i) # 0 /\ TimeOf(i) % PerMs = 0)
  => PathsAreRuns

---------------------------------------------------------------------------
(* The fan-out and fan-in of handleLoadMap, checked under SpecLoad         *)

\* the features of the source at an index among the features of a load
FeaturesOfSource(loaded, index) ==
  { n \in 1..Len(loaded) : loaded[n].sourceIndex = index }

\* how often a URL is listed in a sequence of URLs
TimesListed(url, urls) == Cardinality({ n \in 1..Len(urls) : urls[n] = url })

\* every source of the load is accounted for exactly once: all the features
\* of a source that answered are handed to the core and its URL is not
\* listed as failed, a source that failed hands over no feature and its URL
\* is listed once
AccountedFor(handed, failed) ==
  \A index \in 1..Len(geojsonUrls) :
    IF fetchPromises[index].state = "ok"
    THEN /\ Cardinality(FeaturesOfSource(handed, index)) = fetchPromises[index].count
         /\ \A n \in FeaturesOfSource(handed, index) :
              handed[n].sourceUrl = geojsonUrls[index]
         /\ \A m, n \in FeaturesOfSource(handed, index) :
              m # n => handed[m].feature # handed[n].feature
         /\ TimesListed(geojsonUrls[index], failed) = 0
    ELSE /\ FeaturesOfSource(handed, index) = {}
         /\ TimesListed(geojsonUrls[index], failed) = 1

\* C22: the load waits for every source; under every completion order and
\* every combination of failures each listed URL is accounted for exactly
\* once, either all of its features are in the merged feature set handed to
\* the core or its URL is in metadata.failedSources of the published
\* geojson, and a failure of one source never removes or blocks the features
\* of another.
C22_EverySourceAccountedFor ==
  [][FinishLoad =>
       /\ \A index \in 1..Len(geojsonUrls) : fetchPromises[index].state # "pending"
       /\ AccountedFor(coreInput', geojson'.failedSources)]_vars

\* the same with the failed URLs the load has collected: they are the
\* published metadata.failedSources whenever the load publishes a geojson
EverySourceAccountedForInLoad ==
  [][FinishLoad =>
       /\ \A index \in 1..Len(geojsonUrls) : fetchPromises[index].state # "pending"
       /\ AccountedFor(coreInput', failedUrls)
       /\ geojson'.published => geojson'.failedSources = failedUrls]_vars

\* the merged features grow only and every settled source stays accounted
\* for while the others are in flight
SettledSourcesKept ==
  loadPc = "fetching" =>
    \A index \in 1..Len(geojsonUrls) :
      fetchPromises[index].state = "ok" =>
        Cardinality(FeaturesOfSource(mergedFeatures, index)) = fetchPromises[index].count

---------------------------------------------------------------------------
(* The prefix reset and a load in flight, checked under SpecLoad           *)

PublishedUnder(prefix) ==
  \A n \in 1..Len(geojson.features) : geojson.features[n].sourceUrl.prefix = prefix

\* C30: the published geojson always belongs to the selected target prefix:
\* when the prefix changes while a load is in flight, the load that finishes
\* after the change publishes neither data nor a success message for the
\* previous prefix.
C30_PublishedForTargetPrefix ==
  /\ geojson.published => PublishedUnder(targetPrefix)
  /\ successMessage = "Data loaded" => loadTarget = targetPrefix

\* the effect itself resets the published state when the prefix changes
PrefixChangeResets ==
  [][targetPrefix' # targetPrefix =>
       ~geojson'.published /\ successMessage' = "none" /\ error' = "none"]_vars

\* a load publishes the data of the prefix it was started for
PublishedForLoadTarget ==
  geojson.published => PublishedUnder(loadTarget)
=============================================================================
